---- MODULE Spec2Model ----
(***************************************************************************)
(* Model of the differential-drive robot simulator:                        *)
(*   robot.js            - class Robot (pose, parameters, control step)    *)
(*   canvas.js / part_000 - the simulation driver (lifecycle, fixed-step   *)
(*                         accumulator, logs, target, chart throttle)     *)
(* The repository holds two builds of the driver: canvas.js (the form's    *)
(* start point is the robot centre) and part_000 (the form's start point   *)
(* is the control point).  The variable "variant" says which one runs.     *)
(*                                                                         *)
(* Numbers.  JavaScript numbers are IEEE-754 doubles.                      *)
(*  - Quantities that decide how many steps run (accumulator, dtWall, the  *)
(*    double value of robot.dt, t = cycleCount*dt) are modelled as exact   *)
(*    binary64 values: a vector of limbs holding the exact binary value,   *)
(*    every operation rounded to 53 significant bits, round-half-to-even.  *)
(*  - Geometry (pose, errors, velocities) is modelled in fixed point with  *)
(*    SCALE units per 1 (mm, rad, 1/s, s), with NaN/Infinity as            *)
(*    distinguished values.                                                *)
(***************************************************************************)
EXTENDS Integers, Sequences, FiniteSets, TLC

\* ------------------------------------------------------------------------
\* Bounds of the model
\* ------------------------------------------------------------------------
\* the number of times the clock advances
MaxTicks == 3

\* ------------------------------------------------------------------------
\* Program constants
\* ------------------------------------------------------------------------
MAX_STEPS_PER_FRAME == 5
MAX_PLOT_POINTS == 1200
PLOT_TRIM_CHUNK == 300
CHART_UPDATE_MS == 120
maxTrajectoryPoints == 5000
_trajTrimChunk == 500

\* ------------------------------------------------------------------------
\* Small helpers
\* ------------------------------------------------------------------------
SetMax(S) == CHOOSE m \in S : \A n \in S : n <= m

RECURSIVE Pow2(_)
Pow2(n) == IF n = 0 THEN 1 ELSE 2 * Pow2(n - 1)

\* ------------------------------------------------------------------------
\* IEEE-754 binary64 arithmetic on non-negative values below LIMB
\* ------------------------------------------------------------------------
\* A value is a tuple of NLIMB limbs of LIMBBITS bits, least significant
\* first; the lowest FRACLIMBS limbs hold the fraction, so bit position p
\* (1..NBITS) weighs 2^(p-1-FRACBITS).
LIMBBITS == 15
\* the powers of two up to 2^LIMBBITS
POW2 == [n \in 0..LIMBBITS |-> Pow2(n)]
LIMB == POW2[LIMBBITS]
FRACLIMBS == 5
NLIMB == FRACLIMBS + 1
NBITS == NLIMB * LIMBBITS
FRACBITS == FRACLIMBS * LIMBBITS
\* significand width of a double
MANT == 53

\* a bit vector is kept as a tuple; Limbs turns a function over 1..NLIMB into one
Limbs(f) == SubSeq(f, 1, NLIMB)

BZero == Limbs([i \in 1..NLIMB |-> 0])

LimbOf(p) == ((p - 1) \div LIMBBITS) + 1
BOneAt(p) ==
  Limbs([i \in 1..NLIMB |-> IF i = LimbOf(p) THEN POW2[(p - 1) % LIMBBITS] ELSE 0])

BitOf(a, p) == (a[LimbOf(p)] \div POW2[(p - 1) % LIMBBITS]) % 2

\* exact sum (no rounding): ripple carry from limb i with carry c
RECURSIVE BAddFrom(_, _, _, _)
BAddFrom(a, b, i, c) ==
  IF i > NLIMB THEN <<>>
  ELSE LET s == a[i] + b[i] + c
       IN  <<s % LIMB>> \o BAddFrom(a, b, i + 1, s \div LIMB)

BAddExact(a, b) == LET x == a  y == b IN BAddFrom(x, y, 1, 0)

\* exact difference a - b, for a >= b: ripple borrow
RECURSIVE BSubFrom(_, _, _, _)
BSubFrom(a, b, i, br) ==
  IF i > NLIMB THEN <<>>
  ELSE LET s == a[i] - b[i] - br + LIMB
       IN  <<s % LIMB>> \o BSubFrom(a, b, i + 1, IF s < LIMB THEN 1 ELSE 0)

BSubExact(a, b) == LET x == a  y == b IN BSubFrom(x, y, 1, 0)

BGe(a, b) ==
  LET x == a
      y == b
      diff == {i \in 1..NLIMB : x[i] # y[i]}
  IN  diff = {} \/ x[SetMax(diff)] > y[SetMax(diff)]

BGt(a, b) == BGe(a, b) /\ a # b

\* position of the most significant 1 bit, 0 for zero
BMsb(a) ==
  LET x == a
      used == {i \in 1..NLIMB : x[i] # 0}
  IN  IF used = {} THEN 0
      ELSE LET top == SetMax(used)
               v   == x[top]
           IN  (top - 1) * LIMBBITS
                 + (CHOOSE b \in 1..LIMBBITS : POW2[b - 1] <= v /\ v < POW2[b])

\* a with the bit positions 1..cut cleared
BTrunc(a, cut) ==
  LET x == a
  IN  Limbs([i \in 1..NLIMB |->
        LET lo == (i - 1) * LIMBBITS
        IN  IF lo + LIMBBITS <= cut THEN 0
            ELSE IF lo >= cut THEN x[i]
            ELSE (x[i] \div POW2[cut - lo]) * POW2[cut - lo]])

\* some bit of a at a position 1..cut is set
BLowBits(a, cut) ==
  LET x == a
  IN  \E i \in 1..NLIMB :
        LET lo == (i - 1) * LIMBBITS
        IN  IF lo + LIMBBITS <= cut THEN x[i] # 0
            ELSE IF lo >= cut THEN FALSE
            ELSE x[i] % POW2[cut - lo] # 0

\* round to MANT significant bits, ties to even; sticky says that the exact
\* value has non-zero bits below bit position 1
BRound(a, sticky) ==
  LET x == a
      cut == BMsb(x) - MANT
  IN  IF cut <= 0 THEN x
      ELSE
        LET guard == BitOf(x, cut)
            rest  == sticky \/ BLowBits(x, cut - 1)
            lsb   == BitOf(x, cut + 1)
            trunc == BTrunc(x, cut)
        IN  IF guard = 1 /\ (rest \/ lsb = 1)
            THEN BAddExact(trunc, BOneAt(cut + 1))
            ELSE trunc

\* a + b and a - b as the double operators compute them
DAdd(a, b) == BRound(BAddExact(a, b), FALSE)
DSub(a, b) == BRound(BSubExact(a, b), FALSE)

\* long division: the fractional limbs j..FRACLIMBS of r/d, highest first
RECURSIVE FracLimbs(_, _, _)
FracLimbs(r, d, j) ==
  IF j > FRACLIMBS THEN <<>>
  ELSE <<(r * LIMB) \div d>> \o FracLimbs((r * LIMB) % d, d, j + 1)

\* the remainder left after the fractional limbs
RECURSIVE FracRem(_, _, _)
FracRem(r, d, j) ==
  IF j > FRACLIMBS THEN r ELSE FracRem((r * LIMB) % d, d, j + 1)

\* the double nearest to n/d, for naturals n and 0 < d <= 1000: what a
\* decimal literal or (integer / 1000) evaluates to
DFromRatio(n, d) ==
  LET fl == FracLimbs(n % d, d, 1)
      raw == Limbs([i \in 1..NLIMB |->
                IF i > FRACLIMBS THEN n \div d ELSE fl[FRACLIMBS - i + 1]])
  IN  BRound(raw, FracRem(n % d, d, 1) # 0)

DFromMillis(n) == DFromRatio(n, 1000)

\* exact product of a by a natural m < LIMB
RECURSIVE BTimesFrom(_, _, _, _)
BTimesFrom(a, m, i, c) ==
  IF i > NLIMB THEN <<>>
  ELSE LET s == a[i] * m + c
       IN  <<s % LIMB>> \o BTimesFrom(a, m, i + 1, s \div LIMB)

BTimesExact(a, m) == LET x == a IN BTimesFrom(x, m, 1, 0)

\* m * a as the double multiplication computes it (m an integer-valued double)
DTimes(a, m) == BRound(BTimesExact(a, m), FALSE)

\* integer part of a
BFloor(a) == a[NLIMB]

\* Number.prototype.toFixed(2) followed by parseFloat: the number of
\* hundredths n for which n/100 is nearest to the exact value of a, the
\* larger n on a tie
ToFixed2(a) == BFloor(BAddExact(BTimesExact(a, 100), BOneAt(FRACBITS)))

\* ------------------------------------------------------------------------
\* Fixed-point arithmetic for the geometry
\* ------------------------------------------------------------------------
\* A finite number v is the integer v*SCALE (mm, rad, degrees, 1/s, s in
\* thousandths); NaN, +Infinity and -Infinity are three distinguished values.
\* Zero carries no sign.
SCALE == 1000
PosInf == 2000000000
NegInf == -PosInf
NaN == PosInf + 1

IsFinite(v) == v # NaN /\ v # PosInf /\ v # NegInf

Sign(v) == IF v > 0 THEN 1 ELSE IF v < 0 THEN -1 ELSE 0

\* n / d rounded to the nearest integer, d > 0
RoundDiv(n, d) ==
  IF n >= 0 THEN (n + d \div 2) \div d ELSE -((-n + d \div 2) \div d)

FNeg(v) ==
  LET a == v
  IN  IF a = NaN THEN NaN
      ELSE IF a = PosInf THEN NegInf
      ELSE IF a = NegInf THEN PosInf
      ELSE -a

FAdd(v, w) ==
  LET a == v
      b == w
  IN  IF a = NaN \/ b = NaN THEN NaN
      ELSE IF ~IsFinite(a) /\ ~IsFinite(b) THEN (IF a = b THEN a ELSE NaN)
      ELSE IF ~IsFinite(a) THEN a
      ELSE IF ~IsFinite(b) THEN b
      ELSE a + b

FSub(a, b) == FAdd(a, FNeg(b))

\* a faulty division: a zero divisor is guarded and gives 0
FDivGuarded(v, w) ==
  LET a == v
      b == w
  IN  IF a = NaN \/ b = NaN THEN NaN
      ELSE IF b = 0 THEN 0
      ELSE IF ~IsFinite(a) /\ ~IsFinite(b) THEN NaN
      ELSE IF ~IsFinite(a)
           THEN (IF Sign(a) * Sign(b) >= 0 THEN PosInf ELSE NegInf)
      ELSE IF ~IsFinite(b) THEN 0
      ELSE LET p == a * SCALE
           IN  IF b > 0 THEN RoundDiv(p, b) ELSE RoundDiv(-p, -b)

FMul(v, w) ==
  LET a == v
      b == w
  IN  IF a = NaN \/ b = NaN THEN NaN
      ELSE IF ~IsFinite(a) \/ ~IsFinite(b)
           THEN (IF a = 0 \/ b = 0 THEN NaN
                 ELSE IF Sign(a) * Sign(b) > 0 THEN PosInf ELSE NegInf)
      ELSE LET p == a * b IN RoundDiv(p, SCALE)

FDiv(v, w) ==
  LET a == v
      b == w
  IN  IF a = NaN \/ b = NaN THEN NaN
      ELSE IF ~IsFinite(a) /\ ~IsFinite(b) THEN NaN
      ELSE IF ~IsFinite(a)
           THEN (IF Sign(a) * Sign(b) >= 0 THEN PosInf ELSE NegInf)
      ELSE IF ~IsFinite(b) THEN 0
      ELSE IF b = 0
           THEN (IF a = 0 THEN NaN ELSE IF a > 0 THEN PosInf ELSE NegInf)
      ELSE LET p == a * SCALE
           IN  IF b > 0 THEN RoundDiv(p, b) ELSE RoundDiv(-p, -b)

\* Math.PI, and the angles derived from it, in thousandths of a radian
PI == 3142
TWO_PI == 2 * PI
HALF_PI == PI \div 2

\* cos on [0, pi/2]: the Taylor polynomial up to x^8
CosQ(x) ==
  LET x2 == RoundDiv(x * x, SCALE)
      x4 == RoundDiv(x2 * x2, SCALE)
      x6 == RoundDiv(x4 * x2, SCALE)
      x8 == RoundDiv(x4 * x4, SCALE)
  IN  SCALE - RoundDiv(x2, 2) + RoundDiv(x4, 24) - RoundDiv(x6, 720)
        + RoundDiv(x8, 40320)

\* Math.cos
Cos(v) ==
  LET a == v
  IN
  IF ~IsFinite(a) THEN NaN
  ELSE LET r == a % TWO_PI
           h == IF r > PI THEN TWO_PI - r ELSE r
       IN  IF h > HALF_PI THEN -CosQ(PI - h) ELSE CosQ(h)

\* Math.sin
Sin(v) == LET a == v IN IF ~IsFinite(a) THEN NaN ELSE Cos(a - HALF_PI)

\* theta * Math.PI / 180
DegToRad(deg) == FDiv(FMul(deg, PI), 180 * SCALE)

\* theta * 180 / Math.PI
RadToDeg(rad) == FDiv(FMul(rad, 180 * SCALE), PI)

\* a faulty clamp: the value is returned as it came
clampNone(v, min, max) == v

\* Math.max(min, Math.min(max, v)) for a finite v
clamp(v, min, max) ==
  LET a == v
      m == IF a < max THEN a ELSE max
  IN  IF m > min THEN m ELSE min

\* ------------------------------------------------------------------------
\* robot.js: class Robot
\* ------------------------------------------------------------------------
\* new Robot()
RobotNew ==
  [x |-> 0, y |-> 0, theta |-> 0,
   l |-> 50 * SCALE, k |-> SCALE \div 10, dt |-> SCALE \div 20,
   trajectory |-> <<>>]

getExtensionPoint(r0) ==
  LET r == r0
  IN
  [x |-> FAdd(r.x, FMul(r.l, Cos(r.theta))),
   y |-> FAdd(r.y, FMul(r.l, Sin(r.theta)))]

setInitialConditions(r0, x, y, thetaDeg) ==
  LET r  == r0
      r1 == [r EXCEPT !.x = x, !.y = y, !.theta = DegToRad(thetaDeg)]
  IN  [r1 EXCEPT !.trajectory = <<getExtensionPoint(r1)>>]

\* a faulty trim: every sample above maxTrajectoryPoints is cut at once, one
\* sample per step
TrimTrajectoryPerSample(t) ==
  IF Len(t) > maxTrajectoryPoints
  THEN SubSeq(t, Len(t) - maxTrajectoryPoints + 1, Len(t))
  ELSE t

\* the block trim of the trajectory
TrimTrajectory(t) ==
  IF Len(t) > maxTrajectoryPoints + _trajTrimChunk
  THEN SubSeq(t, Len(t) - maxTrajectoryPoints + 1, Len(t))
  ELSE t

\* calculateControl, its end: the control point is pushed on the
\* trajectory, the trajectory is trimmed and {ex, ey, V, W} is returned
pushExtension(r0, ex, ey, V, W) ==
  LET r == r0
  IN  [robot |-> [r EXCEPT !.trajectory =
                    TrimTrajectory(Append(r.trajectory, getExtensionPoint(r)))],
       ex |-> ex, ey |-> ey, V |-> V, W |-> W]

\* a faulty pose update: x and y advance along the heading before the step
updatePoseOldHeading(r0, ex, ey, V0, W0) ==
  LET r  == r0
      V  == V0
      Wc == W0
  IN  pushExtension([r EXCEPT !.theta = FAdd(r.theta, FMul(Wc, r.dt)),
                              !.x = FAdd(r.x, FMul(FMul(V, Cos(r.theta)), r.dt)),
                              !.y = FAdd(r.y, FMul(FMul(V, Sin(r.theta)), r.dt))],
                    ex, ey, V, Wc)

\* calculateControl, the pose update: theta first, then x and y with the
\* new theta
updatePose(r0, ex, ey, V0, W0) ==
  LET r  == r0
      V  == V0
      Wc == W0
      th == FAdd(r.theta, FMul(Wc, r.dt))
  IN  pushExtension([r EXCEPT !.theta = th,
                              !.x = FAdd(r.x, FMul(FMul(V, Cos(th)), r.dt)),
                              !.y = FAdd(r.y, FMul(FMul(V, Sin(th)), r.dt))],
                    ex, ey, V, Wc)

\* a faulty control law: the feedback has the wrong sign, u = k e
controlLawPositiveFeedback(r0, c0, s0, ex0, ey0) ==
  LET r    == r0
      c    == c0
      s    == s0
      ex   == ex0
      ey   == ey0
      ux   == FMul(r.k, ex)
      uy   == FMul(r.k, ey)
      A01  == FMul(FNeg(r.l), s)
      A11  == FMul(r.l, c)
      detA == FSub(FMul(c, A11), FMul(A01, s))
      V    == FAdd(FMul(FDiv(A11, detA), ux), FMul(FDiv(FNeg(A01), detA), uy))
      Wc   == FAdd(FMul(FDiv(FNeg(s), detA), ux), FMul(FDiv(c, detA), uy))
  IN  updatePose(r, ex, ey, V, Wc)

\* calculateControl, the control law: u = -k e and (V, W) = inv(A) u, for
\* c = cos(theta), s = sin(theta)
controlLaw(r0, c0, s0, ex0, ey0) ==
  LET r    == r0
      c    == c0
      s    == s0
      ex   == ex0
      ey   == ey0
      ux   == FMul(FNeg(r.k), ex)
      uy   == FMul(FNeg(r.k), ey)
      A01  == FMul(FNeg(r.l), s)
      A11  == FMul(r.l, c)
      detA == FSub(FMul(c, A11), FMul(A01, s))
      V    == FAdd(FMul(FDiv(A11, detA), ux), FMul(FDiv(FNeg(A01), detA), uy))
      Wc   == FAdd(FMul(FDiv(FNeg(s), detA), ux), FMul(FDiv(c, detA), uy))
  IN  updatePose(r, ex, ey, V, Wc)

\* a faulty calculateControl: the error is measured from the first sample of
\* the trajectory buffer, not from the control point of the current pose
calculateControlFromTrail(r0, xs, ys) ==
  LET r  == r0
      c  == Cos(r.theta)
      s  == Sin(r.theta)
      p  == IF r.trajectory = <<>> THEN getExtensionPoint(r)
            ELSE r.trajectory[1]
  IN  controlLaw(r, c, s, FSub(p.x, xs), FSub(p.y, ys))

\* calculateControl(xs, ys): the robot after the step and the returned
\* {ex, ey, V, W}
calculateControl(r0, xs, ys) ==
  LET r  == r0
      c  == Cos(r.theta)
      s  == Sin(r.theta)
      ex == FSub(FAdd(r.x, FMul(r.l, c)), xs)
      ey == FSub(FAdd(r.y, FMul(r.l, s)), ys)
  IN  controlLaw(r, c, s, ex, ey)

\* ------------------------------------------------------------------------
\* canvas.js / part_000: the simulation driver
\* ------------------------------------------------------------------------
VARIABLES
  variant,            \* "centre": canvas.js, "ext": part_000
  form,               \* parseFloat of the values of the form inputs
  startDisabled,      \* startX, startY, angle, k, l, dt inputs disabled
  endDisabled,        \* endX, endY inputs disabled
  robot,              \* the Robot instance
  desired,            \* desired.x, desired.y, desired.source
  simState,           \* 'idle' | 'running' | 'paused'
  animationId,        \* handle of the scheduled frame callback, or Null
  cycleCount,
  lastTs,             \* timestamp of the previous frame callback, or Null
  accumulator,        \* a double (seconds)
  data,               \* the session log arrays (timeData, errorXData, ...)
  plot,               \* the plot window arrays (timePlot, errorXPlot, ...)
  extData,            \* extXData, extYData (part_000 only)
  chartsDirty,
  lastChartUpdateTs,
  pending,            \* the browser's list of scheduled frame callbacks
  now,                \* the browser clock (performance.now()), ms
  loaded,             \* robotImg.onload has run
  mqttSubscribedTopic, \* the topic of the current subscription, or ""
  sessionCsv,         \* the last session file downloaded, or NoFile
  mqttClient,         \* the client created last (its number), or Null
  mqttIsConnected,
  mqttUrlInput,       \* mqttUrlInput.value
  mqttTopicInput,     \* mqttTopicInput.value
  clients             \* the clients mqtt.connect has created, as the
                      \* library sees them

vars == <<variant, form, startDisabled, endDisabled, robot, desired, simState,
          animationId, cycleCount, lastTs, accumulator, data, plot, extData,
          chartsDirty, lastChartUpdateTs, pending, now, loaded,
          mqttSubscribedTopic, sessionCsv, mqttClient, mqttIsConnected,
          mqttUrlInput, mqttTopicInput, clients>>

\* the connection to the broker
connection ==
  <<mqttClient, mqttIsConnected, mqttUrlInput, mqttTopicInput, clients>>

\* null
Null == -1

\* no session file has been downloaded
NoFile == [header |-> <<>>, rows |-> <<>>]

\* the values the broker fields of the page are filled with
DefaultUrl == "ws://broker:9001"
DefaultTopic == "robot/goal"

\* the connection as the script sets it up: no client, not connected
NoConnection ==
  /\ mqttClient = Null
  /\ mqttIsConnected = FALSE
  /\ mqttUrlInput = DefaultUrl
  /\ mqttTopicInput = DefaultTopic
  /\ clients = <<>>

\* the clock readings (ms) at which events happen: 0, 150, 250, 300, 450, ...
Gaps == <<150, 100, 50>>
RECURSIVE Instant(_)
Instant(i) ==
  IF i = 0 THEN 0 ELSE Instant(i - 1) + Gaps[((i - 1) % Len(Gaps)) + 1]

\* values the user can type into the form
StartXValues == {0}
StartYValues == {0}
AngleValues  == {0}
KValues      == {SCALE \div 10}
LValues      == {50 * SCALE}
DtValues     == {40, 50}
EndXValues   == {100 * SCALE, 600 * SCALE}
EndYValues   == {100 * SCALE, NaN}
StartFields  == {"startX", "startY", "angle", "k", "l", "dt"}
EndFields    == {"endX", "endY"}
FieldValues(f) ==
  CASE f = "startX" -> StartXValues
    [] f = "startY" -> StartYValues
    [] f = "angle"  -> AngleValues
    [] f = "k"      -> KValues
    [] f = "l"      -> LValues
    [] f = "dt"     -> DtValues
    [] f = "endX"   -> EndXValues
    [] f = "endY"   -> EndYValues

\* coordinates a feed message can carry into setDesired
FeedXValues == {-700 * SCALE, NaN}
FeedYValues == {100 * SCALE}

Sources == {"manual", "mqtt"}

\* the simulation area of each build
SIM_X_MAX == IF variant = "centre" THEN 300 * SCALE ELSE 500 * SCALE
SIM_X_MIN == -SIM_X_MAX
SIM_Y_MAX == IF variant = "centre" THEN 200 * SCALE ELSE 300 * SCALE
SIM_Y_MIN == -SIM_Y_MAX

SessionArrays == {"timeData", "errorXData", "errorYData", "posXData",
                  "posYData", "VData", "WData", "thetaDegData", "goalXData",
                  "goalYData"}
PlotArrays == {"timePlot", "errorXPlot", "errorYPlot", "posXPlot", "posYPlot",
               "VPlot", "WPlot", "goalXPlot", "goalYPlot"}
ExtArrays == {"extXData", "extYData"}

Empty(arrays) == [a \in arrays |-> <<>>]

\* requestAnimationFrame: a handle that no scheduled callback has
NewHandle(scheduled) ==
  CHOOSE h \in 1..(Cardinality(scheduled) + 1) : h \notin scheduled

\* updateDesiredFromInputs(): the new desired and the form as written back
updateDesiredFromInputs(d0, f0) ==
  LET d  == d0
      f  == f0
      nx == IF IsFinite(f.endX) THEN clamp(f.endX, SIM_X_MIN, SIM_X_MAX) ELSE d.x
      ny == IF IsFinite(f.endY) THEN clamp(f.endY, SIM_Y_MIN, SIM_Y_MAX) ELSE d.y
  IN  [desired |-> [d EXCEPT !.x = nx, !.y = ny],
       form    |-> [f EXCEPT !.endX = nx, !.endY = ny]]

\* a faulty setDesired: the origin is not checked against desired.source
setDesiredNoGate(d, f, x, y, origin) ==
  IF ~IsFinite(x) \/ ~IsFinite(y) THEN [desired |-> d, form |-> f]
  ELSE LET nx == clamp(x, SIM_X_MIN, SIM_X_MAX)
           ny == clamp(y, SIM_Y_MIN, SIM_Y_MAX)
       IN  [desired |-> [d EXCEPT !.x = nx, !.y = ny],
            form    |-> [f EXCEPT !.endX = nx, !.endY = ny]]

\* setDesired(x, y, origin)
setDesired(d, f, x, y, origin) ==
  IF origin = "mqtt" /\ d.source # "mqtt" THEN [desired |-> d, form |-> f]
  ELSE IF ~IsFinite(x) \/ ~IsFinite(y) THEN [desired |-> d, form |-> f]
  ELSE LET nx == clamp(x, SIM_X_MIN, SIM_X_MAX)
           ny == clamp(y, SIM_Y_MIN, SIM_Y_MAX)
       IN  [desired |-> [d EXCEPT !.x = nx, !.y = ny],
            form    |-> [f EXCEPT !.endX = nx, !.endY = ny]]

\* setRobotPoseFromExtension(xExt, yExt, thetaDeg) (part_000)
setRobotPoseFromExtension(r0, xExt, yExt, thetaDeg) ==
  LET r  == r0
      th == DegToRad(thetaDeg)
  IN  setInitialConditions(r, FSub(xExt, FMul(r.l, Cos(th))),
                              FSub(yExt, FMul(r.l, Sin(th))), thetaDeg)

\* the robot part of updatePreview(): pose and k, l, dt from the form
PreviewRobot(r0, f0) ==
  LET r == r0
      f == f0
  IN
  IF variant = "centre"
  THEN [setInitialConditions(r, f.startX, f.startY, f.angle)
          EXCEPT !.k = f.k, !.l = f.l, !.dt = f.dt]
  ELSE setRobotPoseFromExtension([r EXCEPT !.k = f.k, !.l = f.l, !.dt = f.dt],
                                 f.startX, f.startY, f.angle)

\* a faulty updatePreview: the test of simState is missing
updatePreviewAlways(st, r0, d0, f0) ==
  LET r == r0
      d == d0
      f == f0
      u == IF d.source = "manual" THEN updateDesiredFromInputs(d, f)
           ELSE [desired |-> d, form |-> f]
  IN  [robot |-> PreviewRobot(r, f), desired |-> u.desired, form |-> u.form]

\* updatePreview(): robot, desired and form after it
updatePreview(st, r0, d0, f0) ==
  LET r == r0
      d == d0
      f == f0
  IN
  IF st # "idle" THEN [robot |-> r, desired |-> d, form |-> f]
  ELSE LET u == IF d.source = "manual" THEN updateDesiredFromInputs(d, f)
                ELSE [desired |-> d, form |-> f]
       IN  [robot |-> PreviewRobot(r, f), desired |-> u.desired, form |-> u.form]

\* the robot part of resetSimulation(): canvas.js re-applies the pose only,
\* part_000 re-applies k, l, dt and the pose
ResetRobot(r0, f0) ==
  LET r == r0
      f == f0
  IN
  IF variant = "centre"
  THEN setInitialConditions(r, f.startX, f.startY, f.angle)
  ELSE setRobotPoseFromExtension([r EXCEPT !.k = f.k, !.l = f.l, !.dt = f.dt],
                                 f.startX, f.startY, f.angle)

\* a faulty maybeUpdateCharts: the time since the last refresh is not tested
maybeUpdateChartsNoThrottle(dirty, lastUpdate, ts, force) ==
  IF ~dirty /\ ~force THEN [dirty |-> dirty, lastUpdate |-> lastUpdate]
  ELSE [dirty |-> FALSE, lastUpdate |-> ts]

\* maybeUpdateCharts(ts, force): chartsDirty and lastChartUpdateTs after it
maybeUpdateCharts(dirty, lastUpdate, ts, force) ==
  IF ~dirty /\ ~force THEN [dirty |-> dirty, lastUpdate |-> lastUpdate]
  ELSE IF ~force /\ ts - lastUpdate < CHART_UPDATE_MS
       THEN [dirty |-> dirty, lastUpdate |-> lastUpdate]
  ELSE [dirty |-> FALSE, lastUpdate |-> ts]

\* a faulty trim of the plot window: the newest entries are cut, not the
\* oldest
trimPlotDataFromBack(p) ==
  LET len == Len(p["timePlot"])
  IN  IF len <= MAX_PLOT_POINTS + PLOT_TRIM_CHUNK THEN p
      ELSE LET removeN == len - MAX_PLOT_POINTS
               n == IF removeN < PLOT_TRIM_CHUNK THEN removeN ELSE PLOT_TRIM_CHUNK
           IN  [a \in PlotArrays |-> SubSeq(p[a], 1, Len(p[a]) - n)]

\* trimPlotDataIfNeeded()
trimPlotDataIfNeeded(p) ==
  LET len == Len(p["timePlot"])
  IN  IF len <= MAX_PLOT_POINTS + PLOT_TRIM_CHUNK THEN p
      ELSE LET removeN == len - MAX_PLOT_POINTS
               n == IF removeN < PLOT_TRIM_CHUNK THEN removeN ELSE PLOT_TRIM_CHUNK
           IN  [a \in PlotArrays |-> SubSeq(p[a], n + 1, Len(p[a]))]

\* parseFloat((cycleCount * robot.dt).toFixed(2))
StepTime(n, dt) ==
  IF ~IsFinite(dt) THEN NaN
  ELSE IF dt >= 0 THEN 10 * ToFixed2(DTimes(DFromMillis(dt), n))
  ELSE -(10 * ToFixed2(DTimes(DFromMillis(-dt), n)))

\* a faulty doSimStep: the position and heading of the row are read before
\* calculateControl moves the robot
pushStepPoseBefore(s0, d, c0) ==
  LET s      == s0
      c      == c0
      r      == c.robot
      n      == s.cycleCount + 1
      t      == StepTime(n, s.robot.dt)
      extOld == getExtensionPoint(s.robot)
      posX   == IF variant = "centre" THEN s.robot.x ELSE extOld.x
      posY   == IF variant = "centre" THEN s.robot.y ELSE extOld.y
      row    == [timeData |-> t, errorXData |-> c.ex, errorYData |-> c.ey,
                 posXData |-> posX, posYData |-> posY, VData |-> c.V,
                 WData |-> c.W, thetaDegData |-> RadToDeg(s.robot.theta),
                 goalXData |-> d.x, goalYData |-> d.y]
      prow   == [timePlot |-> t, errorXPlot |-> c.ex, errorYPlot |-> c.ey,
                 posXPlot |-> posX, posYPlot |-> posY, VPlot |-> c.V,
                 WPlot |-> c.W, goalXPlot |-> d.x, goalYPlot |-> d.y]
      erow   == [extXData |-> s.robot.x, extYData |-> s.robot.y]
  IN  [robot      |-> r,
       cycleCount |-> n,
       data       |-> [a \in SessionArrays |-> Append(s.data[a], row[a])],
       plot       |-> trimPlotDataIfNeeded(
                        [a \in PlotArrays |-> Append(s.plot[a], prow[a])]),
       extData    |-> IF variant = "centre" THEN s.extData
                      ELSE [a \in ExtArrays |-> Append(s.extData[a], erow[a])]]

\* doSimStep, its pushes: the row of the step is appended to the session
\* log and to the plot window, which is then trimmed; c is what
\* calculateControl produced
pushStep(s0, d, c0) ==
  LET s      == s0
      c      == c0
      r      == c.robot
      n      == s.cycleCount + 1
      t      == StepTime(n, s.robot.dt)
      extNow == getExtensionPoint(r)
      posX   == IF variant = "centre" THEN r.x ELSE extNow.x
      posY   == IF variant = "centre" THEN r.y ELSE extNow.y
      row    == [timeData |-> t, errorXData |-> c.ex, errorYData |-> c.ey,
                 posXData |-> posX, posYData |-> posY, VData |-> c.V,
                 WData |-> c.W, thetaDegData |-> RadToDeg(r.theta),
                 goalXData |-> d.x, goalYData |-> d.y]
      prow   == [timePlot |-> t, errorXPlot |-> c.ex, errorYPlot |-> c.ey,
                 posXPlot |-> posX, posYPlot |-> posY, VPlot |-> c.V,
                 WPlot |-> c.W, goalXPlot |-> d.x, goalYPlot |-> d.y]
      erow   == [extXData |-> r.x, extYData |-> r.y]
  IN  [robot      |-> r,
       cycleCount |-> n,
       data       |-> [a \in SessionArrays |-> Append(s.data[a], row[a])],
       plot       |-> trimPlotDataIfNeeded(
                        [a \in PlotArrays |-> Append(s.plot[a], prow[a])]),
       extData    |-> IF variant = "centre" THEN s.extData
                      ELSE [a \in ExtArrays |-> Append(s.extData[a], erow[a])]]

\* a faulty doSimStep: the control is computed for the target the page
\* loads with, (100, 100), whatever the target now is
doSimStepDefaultTarget(s0, d) ==
  pushStep(s0, d, calculateControl(s0.robot, 100 * SCALE, 100 * SCALE))

\* doSimStep() on s = [robot, cycleCount, data, plot, extData]
doSimStep(s0, d) == pushStep(s0, d, calculateControl(s0.robot, d.x, d.y))

\* a faulty loop test: accumulator > 0
AccGtZero(acc, dt) ==
  IF ~IsFinite(dt) THEN FALSE
  ELSE IF dt <= 0 THEN TRUE
  ELSE BGt(acc, BZero)

\* accumulator >= robot.dt
AccGe(acc, dt) ==
  IF ~IsFinite(dt) THEN FALSE
  ELSE IF dt <= 0 THEN TRUE
  ELSE BGe(acc, DFromMillis(dt))

\* accumulator -= robot.dt
AccSub(acc, dt) ==
  IF dt > 0 THEN DSub(acc, DFromMillis(dt)) ELSE DAdd(acc, DFromMillis(-dt))

\* a faulty catch-up loop: the cap is tested as steps <= MAX_STEPS_PER_FRAME
RECURSIVE CatchUpLooseCap(_, _, _, _)
CatchUpLooseCap(s, acc, n, d) ==
  LET a == acc
      cur == s
  IN  IF AccGe(a, cur.robot.dt) /\ n <= MAX_STEPS_PER_FRAME
      THEN LET nxt == doSimStep(cur, d)
               na  == AccSub(a, cur.robot.dt)
           IN  CatchUpLooseCap(nxt, na, n + 1, d)
      ELSE [sim |-> cur, accumulator |-> a, steps |-> n]

\* the catch-up loop of animateFrame: the simulation s, the accumulator and
\* the step counter when the loop exits
RECURSIVE CatchUp(_, _, _, _)
CatchUp(s, acc, n, d) ==
  LET a == acc
      cur == s
  IN  IF AccGe(a, cur.robot.dt) /\ n < MAX_STEPS_PER_FRAME
      THEN LET nxt == doSimStep(cur, d)
               na  == AccSub(a, cur.robot.dt)
           IN  CatchUp(nxt, na, n + 1, d)
      ELSE [sim |-> cur, accumulator |-> a, steps |-> n]

\* a faulty catch-up loop: the backlog left when the cap stops it is dropped
RunCatchUpDropsBacklog(sim, acc, d) ==
  LET out == CatchUp(sim, acc, 0, d)
  IN  IF out.steps = MAX_STEPS_PER_FRAME
      THEN [out EXCEPT !.accumulator = BZero]
      ELSE out

\* let steps = 0; while (...) { doSimStep(); accumulator -= robot.dt; steps++ }
RunCatchUp(sim, acc, d) == CatchUp(sim, acc, 0, d)

\* a faulty setTargetSource: the manual target inputs stay enabled in MQTT
\* mode
setTargetSourceInputsOpen(d, f, source) ==
  LET src == IF source = "mqtt" THEN "mqtt" ELSE "manual"
      d1  == [d EXCEPT !.source = src]
  IN  IF src = "mqtt"
      THEN [desired |-> d1, form |-> f, endDisabled |-> FALSE]
      ELSE LET u == updateDesiredFromInputs(d1, f)
           IN  [desired |-> u.desired, form |-> u.form, endDisabled |-> FALSE]

\* setTargetSource(source): desired, form and the disabled flag of endX, endY
setTargetSource(d, f, source) ==
  LET src == IF source = "mqtt" THEN "mqtt" ELSE "manual"
      d1  == [d EXCEPT !.source = src]
  IN  IF src = "mqtt"
      THEN [desired |-> d1, form |-> f, endDisabled |-> TRUE]
      ELSE LET u == updateDesiredFromInputs(d1, f)
           IN  [desired |-> u.desired, form |-> u.form, endDisabled |-> FALSE]

\* ------------------------------------------------------------------------
\* The text of a feed message: parseGoalPayload and what it calls. Numbers
\* are decimal literals (sign, digits, fraction); exponents and hexadecimal
\* literals are not written in the payloads used here
\* ------------------------------------------------------------------------
\* the character at position i of a string, "" outside it
Ch(s, i) == IF i >= 1 /\ i <= Len(s) THEN SubSeq(s, i, i) ELSE ""

\* \s
IsSpace(c) == c \in {" ", "\t", "\n", "\r"}

DigitChars == <<"0", "1", "2", "3", "4", "5", "6", "7", "8", "9">>
IsDigit(c) == \E d \in 1..10 : DigitChars[d] = c
DigitVal(c) == (CHOOSE d \in 1..10 : DigitChars[d] = c) - 1

RECURSIVE Pow10(_)
Pow10(n) == IF n = 0 THEN 1 ELSE 10 * Pow10(n - 1)

RECURSIVE SkipSpace(_, _)
SkipSpace(s, i) == IF IsSpace(Ch(s, i)) THEN SkipSpace(s, i + 1) ELSE i

RECURSIVE SkipSpaceBack(_, _)
SkipSpaceBack(s, j) == IF IsSpace(Ch(s, j)) THEN SkipSpaceBack(s, j - 1) ELSE j

\* String.prototype.trim
Trim(s) ==
  LET i == SkipSpace(s, 1)
      j == SkipSpaceBack(s, Len(s))
  IN  IF i > j THEN "" ELSE SubSeq(s, i, j)

\* the run of digits that starts at position i: where it ends, its value and
\* its length
RECURSIVE ReadDigits(_, _, _, _)
ReadDigits(s, i, val, cnt) ==
  IF IsDigit(Ch(s, i))
  THEN ReadDigits(s, i + 1, 10 * val + DigitVal(Ch(s, i)), cnt + 1)
  ELSE [pos |-> i, val |-> val, cnt |-> cnt]

NoDigits(i) == [pos |-> i, val |-> 0, cnt |-> 0]

\* the number with integer digits ip and fraction digits fr
DecimalValue(neg, ip, fr) ==
  LET v == ip.val * SCALE
             + (IF fr.cnt = 0 THEN 0 ELSE RoundDiv(fr.val * SCALE, Pow10(fr.cnt)))
  IN  IF neg THEN -v ELSE v

\* Number(tok) of a string without white space
StringToNumber(tok) ==
  LET sgn == Ch(tok, 1)
      neg == sgn = "-"
      j   == IF sgn \in {"+", "-"} THEN 2 ELSE 1
      ip  == ReadDigits(tok, j, 0, 0)
      fr  == IF Ch(tok, ip.pos) = "." THEN ReadDigits(tok, ip.pos + 1, 0, 0)
             ELSE NoDigits(ip.pos)
  IN  IF tok = "" THEN 0
      ELSE IF SubSeq(tok, j, Len(tok)) = "Infinity"
      THEN IF neg THEN NegInf ELSE PosInf
      ELSE IF ip.cnt + fr.cnt = 0 THEN NaN
      ELSE IF fr.pos # Len(tok) + 1 THEN NaN
      ELSE DecimalValue(neg, ip, fr)

\* s.split(/[\s,;]+/).filter(Boolean)
RECURSIVE SplitFrom(_, _, _, _)
SplitFrom(s, i, cur, acc) ==
  IF i > Len(s) THEN IF cur = "" THEN acc ELSE Append(acc, cur)
  ELSE IF IsSpace(Ch(s, i)) \/ Ch(s, i) \in {",", ";"}
  THEN SplitFrom(s, i + 1, "", IF cur = "" THEN acc ELSE Append(acc, cur))
  ELSE SplitFrom(s, i + 1, cur \o Ch(s, i), acc)

Split(s) == SplitFrom(s, 1, "", <<>>)

\* JSON values: kind and, for a number, its value; an object also carries
\* its members x and y
Undefined == [kind |-> "undefined", num |-> 0]
JsonFail == [ok |-> FALSE, pos |-> 0, val |-> Undefined]
JsonOk(pos, val) == [ok |-> TRUE, pos |-> pos, val |-> val]
Flat(v) == [kind |-> v.kind, num |-> v.num]

\* a JSON number at position i: -? digits (. digits)?, no leading zeros
JsonNumber(s, i) ==
  LET neg == Ch(s, i) = "-"
      j   == IF neg THEN i + 1 ELSE i
      ip  == ReadDigits(s, j, 0, 0)
      dot == Ch(s, ip.pos) = "."
      fr  == IF dot THEN ReadDigits(s, ip.pos + 1, 0, 0) ELSE NoDigits(ip.pos)
  IN  IF ip.cnt = 0 \/ (ip.cnt > 1 /\ Ch(s, j) = "0") \/ (dot /\ fr.cnt = 0)
      THEN JsonFail
      ELSE JsonOk(fr.pos, [kind |-> "number", num |-> DecimalValue(neg, ip, fr)])

\* the closing quote of the string whose text starts at position j, 0 if none
RECURSIVE StringEnd(_, _)
StringEnd(s, j) ==
  IF j > Len(s) THEN 0
  ELSE IF Ch(s, j) = "\\" THEN StringEnd(s, j + 2)
  ELSE IF Ch(s, j) = "\"" THEN j
  ELSE StringEnd(s, j + 1)

\* a JSON string at position i
JsonString(s, i) ==
  LET e == StringEnd(s, i + 1)
  IN  IF Ch(s, i) # "\"" \/ e = 0 THEN JsonFail
      ELSE JsonOk(e + 1, [kind |-> "string", num |-> 0,
                          text |-> SubSeq(s, i + 1, e - 1)])

\* the word w stands at position i of s
StartsWith(s, i, w) ==
  i + Len(w) - 1 <= Len(s) /\ SubSeq(s, i, i + Len(w) - 1) = w

\* true, false or null at position i
JsonLiteral(s, i) ==
  IF StartsWith(s, i, "true")
  THEN JsonOk(i + 4, [kind |-> "boolean", num |-> 0])
  ELSE IF StartsWith(s, i, "false")
  THEN JsonOk(i + 5, [kind |-> "boolean", num |-> 0])
  ELSE IF StartsWith(s, i, "null")
  THEN JsonOk(i + 4, [kind |-> "null", num |-> 0])
  ELSE JsonFail

RECURSIVE JsonValue(_, _)
RECURSIVE JsonMembers(_, _, _)
RECURSIVE JsonElements(_, _)

\* the members of an object from position i on; obj holds those read so far
JsonMembers(s, i, obj) ==
  LET k == JsonString(s, SkipSpace(s, i))
      c == SkipSpace(s, k.pos)
      v == JsonValue(s, c + 1)
      o == IF k.val.text = "x" THEN [obj EXCEPT !.x = Flat(v.val)]
           ELSE IF k.val.text = "y" THEN [obj EXCEPT !.y = Flat(v.val)]
           ELSE obj
      n == SkipSpace(s, v.pos)
  IN  IF ~k.ok THEN JsonFail
      ELSE IF Ch(s, c) # ":" THEN JsonFail
      ELSE IF ~v.ok THEN JsonFail
      ELSE IF Ch(s, n) = "," THEN JsonMembers(s, n + 1, o)
      ELSE IF Ch(s, n) = "}" THEN JsonOk(n + 1, o)
      ELSE JsonFail

\* the elements of an array from position i on
JsonElements(s, i) ==
  LET v == JsonValue(s, i)
      n == SkipSpace(s, v.pos)
  IN  IF ~v.ok THEN JsonFail
      ELSE IF Ch(s, n) = "," THEN JsonElements(s, n + 1)
      ELSE IF Ch(s, n) = "]" THEN JsonOk(n + 1, [kind |-> "array", num |-> 0])
      ELSE JsonFail

\* a JSON value at position i0, white space before it skipped
JsonValue(s, i0) ==
  LET i == SkipSpace(s, i0)
      c == Ch(s, i)
      j == SkipSpace(s, i + 1)
  IN  IF c = "{"
      THEN IF Ch(s, j) = "}"
           THEN JsonOk(j + 1, [kind |-> "object", num |-> 0, x |-> Undefined,
                               y |-> Undefined])
           ELSE JsonMembers(s, j, [kind |-> "object", num |-> 0,
                                   x |-> Undefined, y |-> Undefined])
      ELSE IF c = "["
      THEN IF Ch(s, j) = "]"
           THEN JsonOk(j + 1, [kind |-> "array", num |-> 0])
           ELSE JsonElements(s, j)
      ELSE IF c = "\"" THEN JsonString(s, i)
      ELSE IF c = "-" \/ IsDigit(c) THEN JsonNumber(s, i)
      ELSE JsonLiteral(s, i)

\* JSON.parse(s): ok is FALSE where it throws
JSONparse(s) ==
  LET v == JsonValue(s, 1)
  IN  IF v.ok /\ SkipSpace(s, v.pos) = Len(s) + 1 THEN v ELSE JsonFail

\* Number.isFinite(obj.x) for the member m of a parsed value
IsFiniteNumber(m) == m.kind = "number" /\ IsFinite(m.num)

NoGoal == [ok |-> FALSE, x |-> 0, y |-> 0]

\* the second attempt of parseGoalPayload: numbers separated by white space,
\* commas or semicolons
parseGoalParts(parts) ==
  IF Len(parts) < 2 THEN NoGoal
  ELSE LET x == StringToNumber(parts[1])
           y == StringToNumber(parts[2])
       IN  IF IsFinite(x) /\ IsFinite(y) THEN [ok |-> TRUE, x |-> x, y |-> y]
           ELSE NoGoal

\* parseGoalPayload(payload): ok is FALSE where it returns null
parseGoalPayload(payload) ==
  LET s == Trim(payload)
      j == JSONparse(s)
  IN  IF s = "" THEN NoGoal
      ELSE IF j.ok /\ j.val.kind = "object" /\ IsFiniteNumber(j.val.x)
                   /\ IsFiniteNumber(j.val.y)
      THEN [ok |-> TRUE, x |-> j.val.x.num, y |-> j.val.y.num]
      ELSE parseGoalParts(Split(s))

\* a faulty 'message' handler: the topic is not compared with the subscription
onMessageAnyTopic(d, f, sub, t, payload) ==
  LET parsed == parseGoalPayload(payload)
  IN  IF ~parsed.ok THEN [desired |-> d, form |-> f]
      ELSE setDesired(d, f, parsed.x, parsed.y, "mqtt")

\* mqttClient.on('message', (t, msg) => ...): desired and the form after it
onMessage(d, f, sub, t, payload) ==
  LET parsed == parseGoalPayload(payload)
  IN  IF t # sub THEN [desired |-> d, form |-> f]
      ELSE IF ~parsed.ok THEN [desired |-> d, form |-> f]
      ELSE setDesired(d, f, parsed.x, parsed.y, "mqtt")

\* the forms the page can show when the script starts
Forms ==
  [startX : StartXValues, startY : StartYValues, angle : AngleValues,
   k : KValues, l : LValues, dt : DtValues, endX : EndXValues,
   endY : EndYValues]

\* the state when the script has run to its last line
Init ==
  /\ variant \in {"centre", "ext"}
  /\ \E f \in Forms, checked \in Sources :
       LET u == setTargetSource([x |-> 100 * SCALE, y |-> 100 * SCALE,
                                 source |-> "manual"], f, checked)
       IN  /\ desired = u.desired
           /\ form = u.form
           /\ endDisabled = u.endDisabled
  /\ startDisabled = FALSE
  /\ robot = RobotNew
  /\ simState = "idle"
  /\ animationId = Null
  /\ cycleCount = 0
  /\ lastTs = Null
  /\ accumulator = BZero
  /\ data = Empty(SessionArrays)
  /\ plot = Empty(PlotArrays)
  /\ extData = Empty(ExtArrays)
  /\ chartsDirty = FALSE
  /\ lastChartUpdateTs = 0
  /\ pending = {}
  /\ now = 0
  /\ loaded = FALSE
  /\ mqttSubscribedTopic = ""
  /\ sessionCsv = NoFile
  /\ NoConnection

\* robotImg.onload
ImgOnload ==
  /\ ~loaded
  /\ LET u1 == updateDesiredFromInputs(desired, form)
         u2 == updatePreview(simState, robot, u1.desired, u1.form)
     IN  /\ robot' = u2.robot
         /\ desired' = u2.desired
         /\ form' = u2.form
  /\ loaded' = TRUE
  /\ UNCHANGED <<connection, sessionCsv, mqttSubscribedTopic, variant, startDisabled, endDisabled, simState, animationId,
                 cycleCount, lastTs, accumulator, data, plot, extData,
                 chartsDirty, lastChartUpdateTs, pending, now>>

\* 'input' on startX, startY, angle, k, l or dt: updatePreview
StartInput(field, value) ==
  /\ ~startDisabled
  /\ value # form[field]
  /\ LET u == updatePreview(simState, robot, desired,
                            [form EXCEPT ![field] = value])
     IN  /\ robot' = u.robot
         /\ desired' = u.desired
         /\ form' = u.form
  /\ UNCHANGED <<connection, sessionCsv, mqttSubscribedTopic, variant, startDisabled, endDisabled, simState, animationId,
                 cycleCount, lastTs, accumulator, data, plot, extData,
                 chartsDirty, lastChartUpdateTs, pending, now, loaded>>

\* 'input' on endX or endY
EndInput(field, value) ==
  /\ ~endDisabled
  /\ value # form[field]
  /\ LET f == [form EXCEPT ![field] = value]
         u == IF desired.source = "manual"
              THEN updateDesiredFromInputs(desired, f)
              ELSE [desired |-> desired, form |-> f]
     IN  /\ desired' = u.desired
         /\ form' = u.form
  /\ UNCHANGED <<connection, sessionCsv, mqttSubscribedTopic, variant, startDisabled, endDisabled, robot, simState,
                 animationId, cycleCount, lastTs, accumulator, data, plot,
                 extData, chartsDirty, lastChartUpdateTs, pending, now, loaded>>

\* 'change' on the Manual/MQTT selector
TargetSourceChange(source) ==
  /\ source # desired.source
  /\ LET u == setTargetSource(desired, form, source)
     IN  /\ desired' = u.desired
         /\ form' = u.form
         /\ endDisabled' = u.endDisabled
  /\ UNCHANGED <<connection, sessionCsv, mqttSubscribedTopic, variant, startDisabled, robot, simState, animationId,
                 cycleCount, lastTs, accumulator, data, plot, extData,
                 chartsDirty, lastChartUpdateTs, pending, now, loaded>>

\* a feed message with coordinates (x, y): setDesired(x, y, 'mqtt')
OnMessage(x, y) ==
  /\ LET u == setDesired(desired, form, x, y, "mqtt")
     IN  /\ desired' = u.desired
         /\ form' = u.form
  /\ UNCHANGED <<connection, sessionCsv, mqttSubscribedTopic, variant, startDisabled, endDisabled, robot, simState,
                 animationId, cycleCount, lastTs, accumulator, data, plot,
                 extData, chartsDirty, lastChartUpdateTs, pending, now, loaded>>

\* a faulty startSimulation: lastTs and accumulator are not reset
startSimulationKeepsClock ==
  /\ LET u == updatePreview(simState, robot, desired, form)
     IN  /\ robot' = u.robot
         /\ desired' = u.desired
         /\ form' = u.form
  /\ cycleCount' = 0
  /\ data' = Empty(SessionArrays)
  /\ plot' = Empty(PlotArrays)
  /\ chartsDirty' = FALSE
  /\ lastChartUpdateTs' = now
  /\ simState' = "running"
  /\ startDisabled' = TRUE
  /\ animationId' = NewHandle(pending)
  /\ pending' = pending \cup {animationId'}
  /\ UNCHANGED <<connection, sessionCsv, mqttSubscribedTopic, variant, endDisabled, extData, now, loaded, lastTs,
                 accumulator>>

startSimulation ==
  /\ LET u == updatePreview(simState, robot, desired, form)
     IN  /\ robot' = u.robot
         /\ desired' = u.desired
         /\ form' = u.form
  /\ cycleCount' = 0
  /\ data' = Empty(SessionArrays)
  /\ plot' = Empty(PlotArrays)
  /\ LET c == maybeUpdateCharts(TRUE, 0, now, TRUE)
     IN  /\ chartsDirty' = c.dirty
         /\ lastChartUpdateTs' = c.lastUpdate
  /\ lastTs' = Null
  /\ accumulator' = BZero
  /\ simState' = "running"
  /\ startDisabled' = TRUE
  /\ animationId' = NewHandle(pending)
  /\ pending' = pending \cup {animationId'}
  /\ UNCHANGED <<connection, sessionCsv, mqttSubscribedTopic, variant, endDisabled, extData, now, loaded>>

\* a faulty pauseSimulation: the scheduled callback is not cancelled
pauseSimulationNoCancel ==
  /\ simState' = "paused"
  /\ animationId' = Null
  /\ lastTs' = Null
  /\ accumulator' = BZero
  /\ UNCHANGED <<connection, sessionCsv, mqttSubscribedTopic, variant, form, startDisabled, endDisabled, robot, desired,
                 cycleCount, data, plot, extData, chartsDirty,
                 lastChartUpdateTs, now, loaded, pending>>

\* a faulty pauseSimulation: the state becomes 'idle'
pauseSimulationToIdle ==
  /\ simState' = "idle"
  /\ pending' = pending \ {animationId}
  /\ animationId' = Null
  /\ lastTs' = Null
  /\ accumulator' = BZero
  /\ UNCHANGED <<connection, sessionCsv, mqttSubscribedTopic, variant, form, startDisabled, endDisabled, robot, desired,
                 cycleCount, data, plot, extData, chartsDirty,
                 lastChartUpdateTs, now, loaded>>

\* a faulty pauseSimulation: the accumulator is not reset
pauseSimulationKeepsAccumulator ==
  /\ simState' = "paused"
  /\ pending' = pending \ {animationId}
  /\ animationId' = Null
  /\ lastTs' = Null
  /\ UNCHANGED <<connection, sessionCsv, mqttSubscribedTopic, variant, form, startDisabled, endDisabled, robot, desired,
                 cycleCount, data, plot, extData, chartsDirty,
                 lastChartUpdateTs, now, loaded, accumulator>>

pauseSimulation ==
  /\ simState' = "paused"
  /\ pending' = pending \ {animationId}
  /\ animationId' = Null
  /\ lastTs' = Null
  /\ accumulator' = BZero
  /\ UNCHANGED <<connection, sessionCsv, mqttSubscribedTopic, variant, form, startDisabled, endDisabled, robot, desired,
                 cycleCount, data, plot, extData, chartsDirty,
                 lastChartUpdateTs, now, loaded>>

\* a faulty resumeSimulation: the pose is set from the form again, as on a
\* start
resumeSimulationResetsPose ==
  /\ simState' = "running"
  /\ robot' = PreviewRobot(robot, form)
  /\ lastTs' = Null
  /\ accumulator' = BZero
  /\ animationId' = NewHandle(pending)
  /\ pending' = pending \cup {animationId'}
  /\ UNCHANGED <<connection, sessionCsv, mqttSubscribedTopic, variant, form, startDisabled, endDisabled, desired,
                 cycleCount, data, plot, extData, chartsDirty,
                 lastChartUpdateTs, now, loaded>>

\* a faulty resumeSimulation: the state stays 'paused'
resumeSimulationStaysPaused ==
  /\ lastTs' = Null
  /\ accumulator' = BZero
  /\ animationId' = NewHandle(pending)
  /\ pending' = pending \cup {animationId'}
  /\ UNCHANGED <<connection, sessionCsv, mqttSubscribedTopic, variant, form, startDisabled, endDisabled, robot, desired,
                 cycleCount, data, plot, extData, chartsDirty,
                 lastChartUpdateTs, now, loaded, simState>>

resumeSimulation ==
  /\ simState' = "running"
  /\ lastTs' = Null
  /\ accumulator' = BZero
  /\ animationId' = NewHandle(pending)
  /\ pending' = pending \cup {animationId'}
  /\ UNCHANGED <<connection, sessionCsv, mqttSubscribedTopic, variant, form, startDisabled, endDisabled, robot, desired,
                 cycleCount, data, plot, extData, chartsDirty,
                 lastChartUpdateTs, now, loaded>>

\* click on the animate button
toggleSimulation ==
  IF simState = "running" THEN pauseSimulation
  ELSE IF simState = "paused" THEN resumeSimulation
  ELSE startSimulation

\* a faulty resetSimulation: extXData and extYData are not emptied
resetSimulationKeepsExt ==
  /\ simState' = "idle"
  /\ pending' = pending \ {animationId}
  /\ animationId' = Null
  /\ cycleCount' = 0
  /\ data' = Empty(SessionArrays)
  /\ plot' = Empty(PlotArrays)
  /\ startDisabled' = FALSE
  /\ robot' = ResetRobot(robot, form)
  /\ LET u == IF desired.source = "manual"
              THEN updateDesiredFromInputs(desired, form)
              ELSE [desired |-> desired, form |-> form]
     IN  /\ desired' = u.desired
         /\ form' = u.form
  /\ LET c == maybeUpdateCharts(TRUE, 0, now, TRUE)
     IN  /\ chartsDirty' = c.dirty
         /\ lastChartUpdateTs' = c.lastUpdate
  /\ UNCHANGED <<connection, sessionCsv, mqttSubscribedTopic, variant, extData,
                 endDisabled, lastTs, accumulator, now, loaded>>

\* click on the restart button
resetSimulation ==
  /\ simState' = "idle"
  /\ pending' = pending \ {animationId}
  /\ animationId' = Null
  /\ cycleCount' = 0
  /\ data' = Empty(SessionArrays)
  /\ plot' = Empty(PlotArrays)
  /\ extData' = Empty(ExtArrays)
  /\ startDisabled' = FALSE
  /\ robot' = ResetRobot(robot, form)
  /\ LET u == IF desired.source = "manual"
              THEN updateDesiredFromInputs(desired, form)
              ELSE [desired |-> desired, form |-> form]
     IN  /\ desired' = u.desired
         /\ form' = u.form
  /\ LET c == maybeUpdateCharts(TRUE, 0, now, TRUE)
     IN  /\ chartsDirty' = c.dirty
         /\ lastChartUpdateTs' = c.lastUpdate
  /\ UNCHANGED <<connection, sessionCsv, mqttSubscribedTopic, variant, endDisabled, lastTs, accumulator, now, loaded>>

\* ts - lastTs, null counting as 0
Elapsed(ts, prev) == IF prev = Null THEN ts ELSE ts - prev

\* a faulty dtWall: the ceiling of 0.25 is not applied
UnclampedDtWall(ts, prev) == DFromMillis(Elapsed(ts, prev))

\* dtWall = (ts - lastTs) / 1000, clamped to 0.25
ClampedDtWall(ts, prev) ==
  LET d == DFromMillis(Elapsed(ts, prev))
      ceiling == DFromMillis(250)
  IN  IF BGt(d, ceiling) THEN ceiling ELSE d

\* a faulty first-callback test: no callback is taken as the first one
NeverFirstFrame == FALSE

\* lastTs === null: the first callback after a start or a resume
IsFirstFrame == lastTs = Null

\* the browser runs the frame callback with handle h; ts is the clock
animateFrame(h) ==
  LET ts == now
      scheduled == pending \ {h}
  IN
  /\ h \in pending
  /\ lastTs = Null \/ ts > lastTs
  /\ IF simState # "running"
     THEN /\ pending' = scheduled
          /\ UNCHANGED <<robot, cycleCount, data, plot, extData, lastTs,
                         accumulator, animationId, chartsDirty,
                         lastChartUpdateTs>>
     ELSE IF IsFirstFrame
     THEN /\ lastTs' = ts
          /\ animationId' = NewHandle(scheduled)
          /\ pending' = scheduled \cup {animationId'}
          /\ UNCHANGED <<robot, cycleCount, data, plot, extData, accumulator,
                         chartsDirty, lastChartUpdateTs>>
     ELSE LET dtWall == ClampedDtWall(ts, lastTs)
              acc    == DAdd(accumulator, dtWall)
              sim    == [robot |-> robot, cycleCount |-> cycleCount,
                         data |-> data, plot |-> plot, extData |-> extData]
              out    == RunCatchUp(sim, acc, desired)
              c      == maybeUpdateCharts(chartsDirty \/ out.steps > 0,
                                          lastChartUpdateTs, ts, FALSE)
          IN  /\ lastTs' = ts
              /\ accumulator' = out.accumulator
              /\ robot' = out.sim.robot
              /\ cycleCount' = out.sim.cycleCount
              /\ data' = out.sim.data
              /\ plot' = out.sim.plot
              /\ extData' = out.sim.extData
              /\ chartsDirty' = c.dirty
              /\ lastChartUpdateTs' = c.lastUpdate
              /\ animationId' = NewHandle(scheduled)
              /\ pending' = scheduled \cup {animationId'}
  /\ UNCHANGED <<connection, sessionCsv, mqttSubscribedTopic, variant, form, startDisabled, endDisabled, desired, simState,
                 now, loaded>>

\* time passes: the clock moves to the next instant at which events happen;
\* the robot image has loaded by the time the first instant has passed
Tick ==
  /\ loaded
  /\ \E i \in 0..(MaxTicks - 1) : now = Instant(i) /\ now' = Instant(i + 1)
  /\ UNCHANGED <<connection, sessionCsv, mqttSubscribedTopic, variant, form, startDisabled, endDisabled, robot, desired,
                 simState, animationId, cycleCount, lastTs, accumulator, data,
                 plot, extData, chartsDirty, lastChartUpdateTs, pending,
                 loaded>>

Next ==
  \/ ImgOnload
  \/ \E field \in StartFields : \E value \in FieldValues(field) :
       StartInput(field, value)
  \/ \E field \in EndFields : \E value \in FieldValues(field) :
       EndInput(field, value)
  \/ \E source \in Sources : TargetSourceChange(source)
  \/ \E x \in FeedXValues, y \in FeedYValues : OnMessage(x, y)
  \/ toggleSimulation
  \/ resetSimulation
  \/ \E h \in pending : animateFrame(h)
  \/ Tick

Spec == Init /\ [][Next]_vars

\* ------------------------------------------------------------------------
\* A session seen step by step: the form is applied as startSimulation
\* applies it and doSimStep runs again and again, as the loop of
\* animateFrame runs it over the frames of a long session
\* ------------------------------------------------------------------------
\* the steps of a session
MaxSteps == 40

\* the forms of the sessions: the configuration of the spec's convergence
\* case, other headings and targets, and a control point at distance l = 0
RunAngleValues == {0, 90 * SCALE}
RunLValues     == {50 * SCALE, 0}
RunEndXValues  == {100 * SCALE, -50 * SCALE}
RunForms ==
  [startX : StartXValues, startY : StartYValues, angle : RunAngleValues,
   k : KValues, l : RunLValues, dt : {SCALE \div 20}, endX : RunEndXValues,
   endY : {100 * SCALE}]

\* the state startSimulation leaves, lastTs set by the first frame callback
RunInit ==
  /\ variant \in {"centre", "ext"}
  /\ \E f \in RunForms :
       LET u == setTargetSource([x |-> 100 * SCALE, y |-> 100 * SCALE,
                                 source |-> "manual"], f, "manual")
       IN  /\ desired = u.desired
           /\ form = u.form
           /\ endDisabled = u.endDisabled
           /\ robot = PreviewRobot(RobotNew, u.form)
  /\ startDisabled = TRUE
  /\ simState = "running"
  /\ animationId = 1
  /\ pending = {1}
  /\ cycleCount = 0
  /\ lastTs = 0
  /\ accumulator = BZero
  /\ data = Empty(SessionArrays)
  /\ plot = Empty(PlotArrays)
  /\ extData = Empty(ExtArrays)
  /\ chartsDirty = FALSE
  /\ lastChartUpdateTs = 0
  /\ now = 0
  /\ loaded = TRUE
  /\ mqttSubscribedTopic = ""
  /\ sessionCsv = NoFile
  /\ NoConnection

\* one pass of the loop of animateFrame: doSimStep()
RunStep ==
  /\ cycleCount < MaxSteps
  /\ LET s == doSimStep([robot |-> robot, cycleCount |-> cycleCount,
                         data |-> data, plot |-> plot, extData |-> extData],
                        desired)
     IN  /\ robot' = s.robot
         /\ cycleCount' = s.cycleCount
         /\ data' = s.data
         /\ plot' = s.plot
         /\ extData' = s.extData
  /\ chartsDirty' = TRUE
  /\ UNCHANGED <<connection, sessionCsv, mqttSubscribedTopic, variant, form, startDisabled, endDisabled, desired, simState,
                 animationId, lastTs, accumulator, lastChartUpdateTs, pending,
                 now, loaded>>

RunSpec == RunInit /\ [][RunStep]_vars

\* ------------------------------------------------------------------------
\* The robot alone: a new Robot placed at (0, 0, 0 degrees) with the
\* parameters of its constructor, stepped towards the target (100, 100)
\* ------------------------------------------------------------------------
\* the steps of the robot
MaxRobotSteps == 300

RobotInit ==
  /\ variant \in {"centre", "ext"}
  /\ robot = setInitialConditions(RobotNew, 0, 0, 0)
  /\ desired = [x |-> 100 * SCALE, y |-> 100 * SCALE, source |-> "manual"]
  /\ form = [startX |-> 0, startY |-> 0, angle |-> 0, k |-> RobotNew.k,
             l |-> RobotNew.l, dt |-> RobotNew.dt, endX |-> 100 * SCALE,
             endY |-> 100 * SCALE]
  /\ startDisabled = FALSE
  /\ endDisabled = FALSE
  /\ simState = "idle"
  /\ animationId = Null
  /\ pending = {}
  /\ cycleCount = 0
  /\ lastTs = Null
  /\ accumulator = BZero
  /\ data = Empty(SessionArrays)
  /\ plot = Empty(PlotArrays)
  /\ extData = Empty(ExtArrays)
  /\ chartsDirty = FALSE
  /\ lastChartUpdateTs = 0
  /\ now = 0
  /\ loaded = FALSE
  /\ mqttSubscribedTopic = ""
  /\ sessionCsv = NoFile
  /\ NoConnection

\* robot.calculateControl(desired.x, desired.y); cycleCount counts the calls
RobotStep ==
  /\ cycleCount < MaxRobotSteps
  /\ robot' = calculateControl(robot, desired.x, desired.y).robot
  /\ cycleCount' = cycleCount + 1
  /\ UNCHANGED <<connection, sessionCsv, mqttSubscribedTopic, variant, form, startDisabled, endDisabled, desired, simState,
                 animationId, lastTs, accumulator, data, plot, extData,
                 chartsDirty, lastChartUpdateTs, pending, now, loaded>>

RobotSpec == RobotInit /\ [][RobotStep]_vars

\* ------------------------------------------------------------------------
\* The robot alone over a long run, past the point where the trajectory
\* buffer is trimmed
\* ------------------------------------------------------------------------
\* the steps the robot has made when the observation starts, and the steps
\* observed
TrailStart == 5490
MaxTrailSteps == 120

\* robot r after n calls of calculateControl(x, y)
RECURSIVE AfterSteps(_, _, _, _)
AfterSteps(r0, x, y, n) ==
  LET r == r0
  IN  IF n = 0 THEN r
      ELSE IF n = 1 THEN calculateControl(r, x, y).robot
      ELSE LET half == AfterSteps(r, x, y, n \div 2)
           IN  IF Len(half.trajectory) > 0
               THEN AfterSteps(half, x, y, n - (n \div 2))
               ELSE half

\* the robot of RobotInit after TrailStart steps
TrailInit ==
  /\ variant = "centre"
  /\ robot = AfterSteps(setInitialConditions(RobotNew, 0, 0, 0),
                        100 * SCALE, 100 * SCALE, TrailStart)
  /\ desired = [x |-> 100 * SCALE, y |-> 100 * SCALE, source |-> "manual"]
  /\ form = [startX |-> 0, startY |-> 0, angle |-> 0, k |-> RobotNew.k,
             l |-> RobotNew.l, dt |-> RobotNew.dt, endX |-> 100 * SCALE,
             endY |-> 100 * SCALE]
  /\ startDisabled = FALSE
  /\ endDisabled = FALSE
  /\ simState = "idle"
  /\ animationId = Null
  /\ pending = {}
  /\ cycleCount = TrailStart
  /\ lastTs = Null
  /\ accumulator = BZero
  /\ data = Empty(SessionArrays)
  /\ plot = Empty(PlotArrays)
  /\ extData = Empty(ExtArrays)
  /\ chartsDirty = FALSE
  /\ lastChartUpdateTs = 0
  /\ now = 0
  /\ loaded = FALSE
  /\ mqttSubscribedTopic = ""
  /\ sessionCsv = NoFile
  /\ NoConnection

\* robot.calculateControl(desired.x, desired.y); cycleCount counts the calls
TrailStep ==
  /\ cycleCount < TrailStart + MaxTrailSteps
  /\ robot' = calculateControl(robot, desired.x, desired.y).robot
  /\ cycleCount' = cycleCount + 1
  /\ UNCHANGED <<connection, sessionCsv, mqttSubscribedTopic, variant, form, startDisabled, endDisabled, desired, simState,
                 animationId, lastTs, accumulator, data, plot, extData,
                 chartsDirty, lastChartUpdateTs, pending, now, loaded>>

TrailSpec == TrailInit /\ [][TrailStep]_vars

\* ------------------------------------------------------------------------
\* A long session seen step by step, past the point where the plot window
\* is trimmed
\* ------------------------------------------------------------------------
\* the steps the session has made when the observation starts, and the
\* steps observed
WindowStart == 1490
MaxWindowSteps == 60

\* the simulation s after n calls of doSimStep() with the target d
RECURSIVE AfterSimSteps(_, _, _)
AfterSimSteps(s0, d, n) ==
  LET s == s0
  IN  IF n = 0 THEN s
      ELSE IF n = 1 THEN doSimStep(s, d)
      ELSE LET half == AfterSimSteps(s, d, n \div 2)
           IN  IF half.cycleCount > 0
               THEN AfterSimSteps(half, d, n - (n \div 2))
               ELSE half

\* a session started with the constructor's parameters and the target
\* (100, 100), after WindowStart steps
WindowInit ==
  /\ variant \in {"centre", "ext"}
  /\ desired = [x |-> 100 * SCALE, y |-> 100 * SCALE, source |-> "manual"]
  /\ form = [startX |-> 0, startY |-> 0, angle |-> 0, k |-> RobotNew.k,
             l |-> RobotNew.l, dt |-> RobotNew.dt, endX |-> 100 * SCALE,
             endY |-> 100 * SCALE]
  /\ LET s == AfterSimSteps([robot |-> PreviewRobot(RobotNew, form),
                             cycleCount |-> 0,
                             data |-> Empty(SessionArrays),
                             plot |-> Empty(PlotArrays),
                             extData |-> Empty(ExtArrays)],
                            desired, WindowStart)
     IN  /\ robot = s.robot
         /\ cycleCount = s.cycleCount
         /\ data = s.data
         /\ plot = s.plot
         /\ extData = s.extData
  /\ startDisabled = TRUE
  /\ endDisabled = FALSE
  /\ simState = "running"
  /\ animationId = 1
  /\ pending = {1}
  /\ lastTs = 0
  /\ accumulator = BZero
  /\ chartsDirty = TRUE
  /\ lastChartUpdateTs = 0
  /\ now = 0
  /\ loaded = TRUE
  /\ mqttSubscribedTopic = ""
  /\ sessionCsv = NoFile
  /\ NoConnection

\* one pass of the loop of animateFrame: doSimStep()
WindowStep ==
  /\ cycleCount < WindowStart + MaxWindowSteps
  /\ LET s == doSimStep([robot |-> robot, cycleCount |-> cycleCount,
                         data |-> data, plot |-> plot, extData |-> extData],
                        desired)
     IN  /\ robot' = s.robot
         /\ cycleCount' = s.cycleCount
         /\ data' = s.data
         /\ plot' = s.plot
         /\ extData' = s.extData
  /\ chartsDirty' = TRUE
  /\ UNCHANGED <<connection, sessionCsv, mqttSubscribedTopic, variant, form, startDisabled, endDisabled, desired, simState,
                 animationId, lastTs, accumulator, lastChartUpdateTs, pending,
                 now, loaded>>

WindowSpec == WindowInit /\ [][WindowStep]_vars

\* ------------------------------------------------------------------------
\* The driver with a robot image that loads late: the user can start the
\* session, and frames can run, before robotImg.onload fires
\* ------------------------------------------------------------------------
\* time passes while the robot image is still loading
TickBeforeLoad ==
  /\ ~loaded
  /\ \E i \in 0..(MaxTicks - 1) : now = Instant(i) /\ now' = Instant(i + 1)
  /\ UNCHANGED <<connection, sessionCsv, mqttSubscribedTopic, variant, form, startDisabled, endDisabled, robot, desired,
                 simState, animationId, cycleCount, lastTs, accumulator, data,
                 plot, extData, chartsDirty, lastChartUpdateTs, pending,
                 loaded>>

LoadNext == Next \/ TickBeforeLoad

LoadSpec == Init /\ [][LoadNext]_vars

\* ------------------------------------------------------------------------
\* The target feed: subscriptions, messages as the broker delivers them and
\* the Manual/MQTT selector
\* ------------------------------------------------------------------------
\* topics the user subscribes to, and topics of the messages that arrive
SubscribeTopics == {"robot/goal", "robot/#"}
MessageTopics == {"robot/goal", "robot/speed"}

\* message texts
Payloads ==
  {"{\"x\":100,\"y\":-50}", " {\"x\": 250.5, \"y\": 20} ",
   "{\"y\":7,\"x\":-120,\"z\":[1,\"a\"]}", "{\"x\":\"100\",\"y\":5}",
   "{\"x\":1}", "{\"x\":1,\"y\":null}", "{\"x\":1,\"y\":2", "150,-60",
   "30 40", "10;20", " 5 ,\t6 ", "1.5, -2.25", "+7 .5", "1 2 3", "900,900",
   "12", "", "   ", "abc", "1,abc", "Infinity 3", "null", "[1,2]"}

\* the clients mqtt.connect may create in one run
MaxClients == 2

\* a client as the library holds it: connecting (its first attempt), connected,
\* offline (its connection closed, a new attempt follows after
\* reconnectPeriod) or ended by end(true); closeDue: the client was ended
\* with a connection open or opening, whose 'close' is still to be emitted
NewClient == [state |-> "connecting", closeDue |-> FALSE]

\* mqttClient.end(true)
EndClient(c) ==
  [state |-> "ended", closeDue |-> c.state \in {"connecting", "connected"}]

\* mqtt.connect(url, ...) throws for a URL without a protocol
Throws(url) == ~StartsWith(url, 1, "ws://") /\ ~StartsWith(url, 1, "wss://")

\* a faulty mqttDisconnect: the subscribed topic is kept
mqttDisconnectKeepsTopic(m) ==
  [client      |-> Null,
   isConnected |-> FALSE,
   sub         |-> m.sub,
   clients     |-> IF m.client = Null THEN m.clients
                   ELSE [m.clients EXCEPT ![m.client] = EndClient(@)]]

\* mqttDisconnect() on m = [client, isConnected, sub, clients]
mqttDisconnect(m) ==
  [client      |-> Null,
   isConnected |-> FALSE,
   sub         |-> "",
   clients     |-> IF m.client = Null THEN m.clients
                   ELSE [m.clients EXCEPT ![m.client] = EndClient(@)]]

\* mqttResubscribe() with topicInput in the topic field
mqttResubscribe(m, topicInput) ==
  LET topic == Trim(topicInput)
  IN  IF m.client = Null \/ ~m.isConnected THEN m
      ELSE IF topic = "" THEN m
      ELSE [m EXCEPT !.sub = topic]

\* the connection variables as one record
Mqtt ==
  [client |-> mqttClient, isConnected |-> mqttIsConnected,
   sub |-> mqttSubscribedTopic, clients |-> clients]

\* the page with the form as loaded, the image loaded, and a client that
\* has connected and subscribed to the topic of the topic field
FeedInit ==
  /\ variant \in {"centre", "ext"}
  /\ \E checked \in Sources :
       LET f == [startX |-> 0, startY |-> 0, angle |-> 0, k |-> RobotNew.k,
                 l |-> RobotNew.l, dt |-> RobotNew.dt, endX |-> 100 * SCALE,
                 endY |-> 100 * SCALE]
           u == setTargetSource([x |-> 100 * SCALE, y |-> 100 * SCALE,
                                 source |-> "manual"], f, checked)
       IN  /\ desired = u.desired
           /\ form = u.form
           /\ endDisabled = u.endDisabled
           /\ robot = PreviewRobot(RobotNew, u.form)
  /\ startDisabled = FALSE
  /\ simState = "idle"
  /\ animationId = Null
  /\ cycleCount = 0
  /\ lastTs = Null
  /\ accumulator = BZero
  /\ data = Empty(SessionArrays)
  /\ plot = Empty(PlotArrays)
  /\ extData = Empty(ExtArrays)
  /\ chartsDirty = FALSE
  /\ lastChartUpdateTs = 0
  /\ pending = {}
  /\ now = 0
  /\ loaded = TRUE
  /\ mqttSubscribedTopic = DefaultTopic
  /\ sessionCsv = NoFile
  /\ mqttClient = 1
  /\ mqttIsConnected = TRUE
  /\ mqttUrlInput = DefaultUrl
  /\ mqttTopicInput = DefaultTopic
  /\ clients = <<[state |-> "connected", closeDue |-> FALSE]>>

\* what the connection leaves alone
Page ==
  <<sessionCsv, variant, startDisabled, robot, simState, animationId,
    cycleCount, lastTs, accumulator, data, plot, extData, chartsDirty,
    lastChartUpdateTs, pending, now, loaded>>

\* 'input' on the topic field: the text is now topic, and mqttResubscribe()
\* is called if mqttIsConnected
MqttResubscribe(topic) ==
  /\ topic # mqttTopicInput
  /\ mqttTopicInput' = topic
  /\ mqttSubscribedTopic' =
       IF mqttIsConnected THEN mqttResubscribe(Mqtt, topic).sub
       ELSE mqttSubscribedTopic
  /\ UNCHANGED <<Page, form, endDisabled, desired, mqttClient,
                 mqttIsConnected, mqttUrlInput, clients>>

\* click on the connect button while mqttIsConnected: mqttDisconnect()
MqttDisconnect ==
  /\ mqttIsConnected
  /\ LET m == mqttDisconnect(Mqtt)
     IN  /\ mqttClient' = m.client
         /\ mqttIsConnected' = m.isConnected
         /\ mqttSubscribedTopic' = m.sub
         /\ clients' = m.clients
  /\ UNCHANGED <<Page, form, endDisabled, desired, mqttUrlInput,
                 mqttTopicInput>>

\* mqttConnect(): the connection after it; created: whether mqtt.connect
\* returned a client
mqttConnect(m, urlInput, topicInput) ==
  LET url   == Trim(urlInput)
      topic == Trim(topicInput)
      d     == mqttDisconnect(m)
  IN  IF url = "" \/ topic = "" THEN m
      ELSE IF Throws(url) THEN d
      ELSE [d EXCEPT !.clients = Append(d.clients, NewClient),
                     !.client = Len(d.clients) + 1]

\* click on the connect button while not mqttIsConnected: mqttConnect(),
\* which in part_000 first selects the MQTT target source
MqttConnect ==
  /\ ~mqttIsConnected
  /\ Len(clients) < MaxClients
  /\ LET u == IF variant = "ext" /\ desired.source # "mqtt"
              THEN setTargetSource(desired, form, "mqtt")
              ELSE [desired |-> desired, form |-> form,
                    endDisabled |-> endDisabled]
         m == mqttConnect(Mqtt, mqttUrlInput, mqttTopicInput)
     IN  /\ desired' = u.desired
         /\ form' = u.form
         /\ endDisabled' = u.endDisabled
         /\ mqttClient' = m.client
         /\ mqttIsConnected' = m.isConnected
         /\ mqttSubscribedTopic' = m.sub
         /\ clients' = m.clients
  /\ UNCHANGED <<Page, mqttUrlInput, mqttTopicInput>>

\* the user edits the URL field
UrlInput(url) ==
  /\ url # mqttUrlInput
  /\ mqttUrlInput' = url
  /\ UNCHANGED <<Page, form, endDisabled, desired, mqttSubscribedTopic,
                 mqttClient, mqttIsConnected, mqttTopicInput, clients>>

\* client c emits 'connect' (its first connection, or a reconnection):
\* mqttIsConnected = true, then mqttResubscribe()
ClientConnect(c) ==
  /\ clients[c].state \in {"connecting", "offline"}
  /\ clients' = [clients EXCEPT ![c].state = "connected"]
  /\ mqttIsConnected' = TRUE
  /\ mqttSubscribedTopic' =
       mqttResubscribe([Mqtt EXCEPT !.isConnected = TRUE], mqttTopicInput).sub
  /\ UNCHANGED <<Page, form, endDisabled, desired, mqttClient, mqttUrlInput,
                 mqttTopicInput>>

\* client c emits 'close': its connection, or its attempt to connect, has
\* ended; for a client ended by end(true) this is the close of the
\* connection it had
ClientClose(c) ==
  /\ clients[c].state \in {"connecting", "connected"} \/ clients[c].closeDue
  /\ clients' =
       [clients EXCEPT ![c] = IF @.state = "ended"
                              THEN [@ EXCEPT !.closeDue = FALSE]
                              ELSE [@ EXCEPT !.state = "offline"]]
  /\ mqttIsConnected' = FALSE
  /\ UNCHANGED <<Page, form, endDisabled, desired, mqttSubscribedTopic,
                 mqttClient, mqttUrlInput, mqttTopicInput>>

\* client c emits 'error'; the library goes on with the client as it was
ClientError(c) ==
  /\ clients[c].state # "ended" \/ clients[c].closeDue
  /\ mqttIsConnected' = FALSE
  /\ UNCHANGED <<Page, form, endDisabled, desired, mqttSubscribedTopic,
                 mqttClient, mqttUrlInput, mqttTopicInput, clients>>

\* the client delivers a message with topic t and text payload
MqttMessage(t, payload) ==
  /\ Len(clients) > 0
  /\ LET u == onMessage(desired, form, mqttSubscribedTopic, t, payload)
     IN  /\ desired' = u.desired
         /\ form' = u.form
  /\ UNCHANGED <<connection, sessionCsv, mqttSubscribedTopic, variant, startDisabled, endDisabled,
                 robot, simState, animationId, cycleCount, lastTs, accumulator,
                 data, plot, extData, chartsDirty, lastChartUpdateTs, pending,
                 now, loaded>>

FeedNext ==
  \/ \E topic \in SubscribeTopics : MqttResubscribe(topic)
  \/ MqttDisconnect
  \/ \E t \in MessageTopics, payload \in Payloads : MqttMessage(t, payload)
  \/ \E source \in Sources : TargetSourceChange(source)

FeedSpec == FeedInit /\ [][FeedNext]_vars

\* ------------------------------------------------------------------------
\* The connection to the broker: the connect button, the URL and topic
\* fields, the events of the clients in any order, messages
\* ------------------------------------------------------------------------
\* texts of the URL field and of the topic field
UrlValues == {"", DefaultUrl, "broker"}
TopicValues == {"", DefaultTopic, " robot/# "}

\* message texts: a target, and one that is none
ConnectPayloads == {"150,-60", "abc"}

\* the page as loaded: no client
ConnectInit ==
  /\ variant \in {"centre", "ext"}
  /\ form = [startX |-> 0, startY |-> 0, angle |-> 0, k |-> RobotNew.k,
             l |-> RobotNew.l, dt |-> RobotNew.dt, endX |-> 100 * SCALE,
             endY |-> 100 * SCALE]
  /\ desired = [x |-> 100 * SCALE, y |-> 100 * SCALE, source |-> "manual"]
  /\ endDisabled = FALSE
  /\ robot = PreviewRobot(RobotNew, form)
  /\ startDisabled = FALSE
  /\ simState = "idle"
  /\ animationId = Null
  /\ cycleCount = 0
  /\ lastTs = Null
  /\ accumulator = BZero
  /\ data = Empty(SessionArrays)
  /\ plot = Empty(PlotArrays)
  /\ extData = Empty(ExtArrays)
  /\ chartsDirty = FALSE
  /\ lastChartUpdateTs = 0
  /\ pending = {}
  /\ now = 0
  /\ loaded = TRUE
  /\ mqttSubscribedTopic = ""
  /\ sessionCsv = NoFile
  /\ NoConnection

ConnectNext ==
  \/ MqttConnect
  \/ MqttDisconnect
  \/ \E url \in UrlValues : UrlInput(url)
  \/ \E topic \in TopicValues : MqttResubscribe(topic)
  \/ \E c \in 1..Len(clients) : ClientConnect(c)
  \/ \E c \in 1..Len(clients) : ClientClose(c)
  \/ \E c \in 1..Len(clients) : ClientError(c)
  \/ \E t \in MessageTopics, payload \in ConnectPayloads :
       MqttMessage(t, payload)
  \/ \E source \in Sources : TargetSourceChange(source)

ConnectSpec == ConnectInit /\ [][ConnectNext]_vars

\* ------------------------------------------------------------------------
\* Sessions seen step by step, with the target changing between steps and
\* the session file downloaded at any moment
\* ------------------------------------------------------------------------
\* the steps of one session
MaxSessionSteps == 3

\* the header line of the session file
CsvHeader ==
  <<"t_s", "x_mm", "y_mm", "theta_deg", "ex_mm", "ey_mm", "V_mm_s", "W_rad_s",
    "xs_mm", "ys_mm">>

\* a faulty row of the session file: the errors stand where the position
\* should
csvRowErrorFirst(d, i) ==
  <<d.timeData[i], d.errorXData[i], d.errorYData[i], d.thetaDegData[i],
    d.posXData[i], d.posYData[i], d.VData[i], d.WData[i], d.goalXData[i],
    d.goalYData[i]>>

\* row i of the session file, before row.join(','): the text of a number is
\* kept as the number, which it determines
csvRow(d, i) ==
  <<d.timeData[i], d.posXData[i], d.posYData[i], d.thetaDegData[i],
    d.errorXData[i], d.errorYData[i], d.VData[i], d.WData[i], d.goalXData[i],
    d.goalYData[i]>>

\* click on the save button: downloadSessionCSV()
downloadSessionCSV ==
  /\ sessionCsv' =
       IF Len(data.timeData) = 0 THEN sessionCsv
       ELSE [header |-> CsvHeader,
             rows   |-> [i \in 1..Len(data.timeData) |-> csvRow(data, i)]]
  /\ UNCHANGED <<connection, mqttSubscribedTopic, variant, form, startDisabled,
                 endDisabled, robot, desired, simState, animationId,
                 cycleCount, lastTs, accumulator, data, plot, extData,
                 chartsDirty, lastChartUpdateTs, pending, now, loaded>>

\* one pass of the loop of animateFrame in a running session: doSimStep()
SessionStep ==
  /\ simState = "running"
  /\ cycleCount < MaxSessionSteps
  /\ LET s == doSimStep([robot |-> robot, cycleCount |-> cycleCount,
                         data |-> data, plot |-> plot, extData |-> extData],
                        desired)
     IN  /\ robot' = s.robot
         /\ cycleCount' = s.cycleCount
         /\ data' = s.data
         /\ plot' = s.plot
         /\ extData' = s.extData
  /\ chartsDirty' = TRUE
  /\ UNCHANGED <<connection, sessionCsv, mqttSubscribedTopic, variant, form,
                 startDisabled, endDisabled, desired, simState, animationId,
                 lastTs, accumulator, lastChartUpdateTs, pending, now, loaded>>

SessionNext ==
  \/ toggleSimulation
  \/ resetSimulation
  \/ SessionStep
  \/ \E field \in EndFields : \E value \in FieldValues(field) :
       EndInput(field, value)
  \/ \E x \in FeedXValues, y \in FeedYValues : OnMessage(x, y)
  \/ downloadSessionCSV

SessionSpec == FeedInit /\ [][SessionNext]_vars

\* ------------------------------------------------------------------------
\* The form edited while idle, with values that move the robot, turn it and
\* change the offset of its control point; start, pause, resume and reset
\* ------------------------------------------------------------------------
PreviewValues(f) ==
  CASE f = "startX" -> {0, 100 * SCALE}
    [] f = "startY" -> {0}
    [] f = "angle"  -> {0, 90 * SCALE}
    [] f = "k"      -> {SCALE \div 10}
    [] f = "l"      -> {50 * SCALE, 80 * SCALE}
    [] f = "dt"     -> {40, 50}

\* 'input' on one of the six start fields
StartEdit ==
  \E field \in StartFields : \E value \in PreviewValues(field) :
    StartInput(field, value)

PreviewNext ==
  \/ StartEdit
  \/ toggleSimulation
  \/ resetSimulation

PreviewSpec == FeedInit /\ [][PreviewNext]_vars

\* ------------------------------------------------------------------------
\* The frame loop with the values of dt at the edges: zero, negative and
\* not a number, for which accumulator >= robot.dt is not turned false by
\* subtraction, and a dt so small that the cap stops every callback
\* ------------------------------------------------------------------------
\* parseFloat(dtInput.value): 0, -0.04, NaN (an empty field), 0.04, and
\* 0.01, of which five fit more than once in the time between two callbacks
EdgeDtValues == {0, -40, NaN, 40, 10}

\* the page as loaded, idle, with one of these values in the dt field
EdgeDtInit ==
  /\ variant \in {"centre", "ext"}
  /\ \E dt \in EdgeDtValues :
       form = [startX |-> 0, startY |-> 0, angle |-> 0, k |-> RobotNew.k,
               l |-> RobotNew.l, dt |-> dt, endX |-> 100 * SCALE,
               endY |-> 100 * SCALE]
  /\ desired = [x |-> 100 * SCALE, y |-> 100 * SCALE, source |-> "manual"]
  /\ robot = PreviewRobot(RobotNew, form)
  /\ startDisabled = FALSE
  /\ endDisabled = FALSE
  /\ simState = "idle"
  /\ animationId = Null
  /\ cycleCount = 0
  /\ lastTs = Null
  /\ accumulator = BZero
  /\ data = Empty(SessionArrays)
  /\ plot = Empty(PlotArrays)
  /\ extData = Empty(ExtArrays)
  /\ chartsDirty = FALSE
  /\ lastChartUpdateTs = 0
  /\ pending = {}
  /\ now = 0
  /\ loaded = TRUE
  /\ mqttSubscribedTopic = ""
  /\ sessionCsv = NoFile
  /\ NoConnection

EdgeDtNext ==
  \/ toggleSimulation
  \/ resetSimulation
  \/ \E h \in pending : animateFrame(h)
  \/ Tick

EdgeDtSpec == EdgeDtInit /\ [][EdgeDtNext]_vars

\* ------------------------------------------------------------------------
\* The frame loop with a dt below the two decimals the recorded time keeps
\* ------------------------------------------------------------------------
\* parseFloat(dtInput.value): 0.004 and 0.04
FineDtValues == {4, 40}

\* the page as loaded, idle, with one of these values in the dt field
FineDtInit ==
  /\ variant \in {"centre", "ext"}
  /\ \E dt \in FineDtValues :
       form = [startX |-> 0, startY |-> 0, angle |-> 0, k |-> RobotNew.k,
               l |-> RobotNew.l, dt |-> dt, endX |-> 100 * SCALE,
               endY |-> 100 * SCALE]
  /\ desired = [x |-> 100 * SCALE, y |-> 100 * SCALE, source |-> "manual"]
  /\ robot = PreviewRobot(RobotNew, form)
  /\ startDisabled = FALSE
  /\ endDisabled = FALSE
  /\ simState = "idle"
  /\ animationId = Null
  /\ cycleCount = 0
  /\ lastTs = Null
  /\ accumulator = BZero
  /\ data = Empty(SessionArrays)
  /\ plot = Empty(PlotArrays)
  /\ extData = Empty(ExtArrays)
  /\ chartsDirty = FALSE
  /\ lastChartUpdateTs = 0
  /\ pending = {}
  /\ now = 0
  /\ loaded = TRUE
  /\ mqttSubscribedTopic = ""
  /\ sessionCsv = NoFile
  /\ NoConnection

FineDtNext ==
  \/ toggleSimulation
  \/ resetSimulation
  \/ \E h \in pending : animateFrame(h)
  \/ Tick

FineDtSpec == FineDtInit /\ [][FineDtNext]_vars

\* ------------------------------------------------------------------------
\* The start pose of part_000 in binary64: the x axis at headings 0 and 180
\* degrees, where Math.cos is exactly 1 and -1 and l*cos is exact, so that
\* the subtraction of setRobotPoseFromExtension and the addition of
\* getExtensionPoint are the only roundings
\* ------------------------------------------------------------------------
\* a double with its sign: n thousandths as a decimal literal evaluates
Signed(n) ==
  [neg |-> n < 0, mag |-> DFromMillis(IF n < 0 THEN -n ELSE n)]

\* -x
SNeg(x) == IF x.mag = BZero THEN x ELSE [x EXCEPT !.neg = ~x.neg]

\* x + y as the double addition computes it
SAdd(x0, y0) ==
  LET x == x0
      y == y0
  IN  IF x.neg = y.neg THEN [neg |-> x.neg, mag |-> DAdd(x.mag, y.mag)]
      ELSE IF x.mag = y.mag THEN [neg |-> FALSE, mag |-> BZero]
      ELSE IF BGe(x.mag, y.mag) THEN [neg |-> x.neg, mag |-> DSub(x.mag, y.mag)]
      ELSE [neg |-> y.neg, mag |-> DSub(y.mag, x.mag)]

\* x - y
SSub(x, y) == SAdd(x, SNeg(y))

\* l * Math.cos(thetaDeg * Math.PI / 180) for thetaDeg 0 and 180
LCos(l, thetaDeg) == IF thetaDeg = 0 THEN l ELSE SNeg(l)

\* getExtensionPoint(), its x
getExtensionPointX(r) == SAdd(r.x, LCos(r.l, r.theta))

\* setInitialConditions(x, y, theta), its x: the pose and the one sample
setInitialConditionsX(r, x, thetaDeg) ==
  LET r1 == [r EXCEPT !.x = x, !.theta = thetaDeg]
  IN  [r1 EXCEPT !.trajectory = <<getExtensionPointX(r1)>>]

\* a faulty setRobotPoseFromExtension: the start point is taken as the
\* robot centre
setCentreFromStartX(r, xExt, thetaDeg) == setInitialConditionsX(r, xExt, thetaDeg)

\* setRobotPoseFromExtension(xExt, yExt, thetaDeg), its x
setRobotPoseFromExtensionX(r, xExt, thetaDeg) ==
  setInitialConditionsX(r, SSub(xExt, LCos(r.l, thetaDeg)), thetaDeg)

\* updatePreview() of part_000: l from the form first, then the pose
PreviewRobotX(f) ==
  setRobotPoseFromExtensionX(
    [x |-> Signed(0), theta |-> 0, l |-> Signed(f.l), trajectory |-> <<>>],
    Signed(f.startX), f.angle)

\* values typed into startX, l and angle (thousandths)
ExactValues(f) ==
  CASE f = "startX" -> {0, 100, 300, 700, 1100, 100000, -100000, 150500,
                        -300, 250000, 33300, -70100}
    [] f = "l"      -> {50000, 80000, 43301, 100, 33300}
    [] f = "angle"  -> {0, 180 * SCALE}

\* the page of part_000 as loaded, idle
ExactInit ==
  /\ variant = "ext"
  /\ form = [startX |-> 0, startY |-> 0, angle |-> 0, k |-> RobotNew.k,
             l |-> RobotNew.l, dt |-> RobotNew.dt, endX |-> 100 * SCALE,
             endY |-> 100 * SCALE]
  /\ desired = [x |-> 100 * SCALE, y |-> 100 * SCALE, source |-> "manual"]
  /\ endDisabled = FALSE
  /\ robot = PreviewRobotX(form)
  /\ startDisabled = FALSE
  /\ simState = "idle"
  /\ animationId = Null
  /\ cycleCount = 0
  /\ lastTs = Null
  /\ accumulator = BZero
  /\ data = Empty(SessionArrays)
  /\ plot = Empty(PlotArrays)
  /\ extData = Empty(ExtArrays)
  /\ chartsDirty = FALSE
  /\ lastChartUpdateTs = 0
  /\ pending = {}
  /\ now = 0
  /\ loaded = TRUE
  /\ mqttSubscribedTopic = ""
  /\ sessionCsv = NoFile
  /\ NoConnection

\* 'input' on startX, l or angle while idle: updatePreview()
ExactEdit(field, value) ==
  /\ simState = "idle"
  /\ value # form[field]
  /\ form' = [form EXCEPT ![field] = value]
  /\ robot' = PreviewRobotX([form EXCEPT ![field] = value])
  /\ UNCHANGED <<connection, sessionCsv, mqttSubscribedTopic, variant,
                 startDisabled, endDisabled, desired, simState, animationId,
                 cycleCount, lastTs, accumulator, data, plot, extData,
                 chartsDirty, lastChartUpdateTs, pending, now, loaded>>

\* startSimulation() from idle, which calls updatePreview(), and
\* resetSimulation(): the pose is set from the form in the same way
ExactStart ==
  /\ simState = "idle"
  /\ simState' = "running"
  /\ robot' = PreviewRobotX(form)
  /\ UNCHANGED <<connection, sessionCsv, mqttSubscribedTopic, variant, form,
                 startDisabled, endDisabled, desired, animationId,
                 cycleCount, lastTs, accumulator, data, plot, extData,
                 chartsDirty, lastChartUpdateTs, pending, now, loaded>>

ExactReset ==
  /\ simState = "running"
  /\ simState' = "idle"
  /\ robot' = PreviewRobotX(form)
  /\ UNCHANGED <<connection, sessionCsv, mqttSubscribedTopic, variant, form,
                 startDisabled, endDisabled, desired, animationId,
                 cycleCount, lastTs, accumulator, data, plot, extData,
                 chartsDirty, lastChartUpdateTs, pending, now, loaded>>

ExactNext ==
  \/ \E field \in {"startX", "l", "angle"} :
       \E value \in ExactValues(field) : ExactEdit(field, value)
  \/ ExactStart
  \/ ExactReset

ExactSpec == ExactInit /\ [][ExactNext]_vars

\* ------------------------------------------------------------------------
\* Properties
\* ------------------------------------------------------------------------
SimStates == {"idle", "running", "paused"}

\* a frame callback runs
FrameStep == \E h \in pending : animateFrame(h)

\* the session log and the plot window are empty
LogsEmpty ==
  /\ data = Empty(SessionArrays)
  /\ plot = Empty(PlotArrays)
  /\ extData = Empty(ExtArrays)

\* k, l, dt of the robot are those of the form
ParamsFromForm(r, f) == r.k = f.k /\ r.l = f.l /\ r.dt = f.dt

\* the robot pose is the one the form gives: the heading is the form's
\* angle; the form's start point is the robot centre in canvas.js and the
\* control point in part_000
PoseFromForm(r0, f0) ==
  LET r == r0
      f == f0
  IN  /\ r.theta = DegToRad(f.angle)
      /\ IF variant = "centre"
         THEN r.x = f.startX /\ r.y = f.startY
         ELSE /\ r.x = FSub(f.startX, FMul(f.l, Cos(r.theta)))
              /\ r.y = FSub(f.startY, FMul(f.l, Sin(r.theta)))

\* the robot pose (x, y, theta) is literally the form's (startX, startY, angle)
PoseIsFormValues(r, f) ==
  /\ r.theta = DegToRad(f.angle)
  /\ r.x = f.startX
  /\ r.y = f.startY

\* C1: simState starts as 'idle' and is always 'idle', 'running' or 'paused';
\* the only changes of simState are idle->running (by startSimulation),
\* running->paused (by pauseSimulation), paused->running (by
\* resumeSimulation) and any state->idle (by resetSimulation); the animate
\* button never moves idle->paused or paused->idle; and no state is terminal:
\* a reset always ends in 'idle', and in 'idle' a click on the animate button
\* always starts a session (neither handler has a precondition).
C1_Change ==
  \/ simState' = simState
  \/ simState = "idle" /\ simState' = "running" /\ startSimulation
  \/ simState = "running" /\ simState' = "paused" /\ pauseSimulation
  \/ simState = "paused" /\ simState' = "running" /\ resumeSimulation
  \/ simState' = "idle" /\ resetSimulation
C1_Toggle ==
  toggleSimulation =>
    /\ ~(simState = "idle" /\ simState' = "paused")
    /\ ~(simState = "paused" /\ simState' = "idle")
    /\ simState = "idle" => simState' = "running"
C1_Reset == resetSimulation => simState' = "idle"
C1_Lifecycle ==
  /\ simState = "idle"
  /\ [](simState \in SimStates)
  /\ [][C1_Change /\ C1_Toggle /\ C1_Reset]_vars
\* 'idle' again after the reset of a session whose frame loop had run
C1_Witness ==
  /\ simState = "idle"
  /\ lastTs # Null
  /\ cycleCount = 0
  /\ now >= 150

\* C2 (as amended): immediately after startSimulation from idle the robot's
\* k, l, dt and heading are the form's, the form's start point is the robot
\* centre (canvas.js) or the control point (part_000), every session-log and
\* plot-window array is empty, cycleCount is 0, the trajectory holds exactly
\* one sample, accumulator is 0, lastTs is null, simState is 'running' and a
\* frame callback is scheduled.
C2_AfterStart ==
  [][(simState = "idle" /\ simState' = "running") =>
       /\ PoseFromForm(robot', form')
       /\ ParamsFromForm(robot', form')
       /\ LogsEmpty'
       /\ cycleCount' = 0
       /\ Len(robot'.trajectory) = 1
       /\ accumulator' = BZero
       /\ lastTs' = Null
       /\ animationId' # Null
       /\ pending' = {animationId'}]_vars
\* C2 as stated: the pose itself equals the form values
C2_AsStated ==
  [][(simState = "idle" /\ simState' = "running") =>
       /\ PoseIsFormValues(robot', form')
       /\ ParamsFromForm(robot', form')
       /\ LogsEmpty'
       /\ cycleCount' = 0
       /\ Len(robot'.trajectory) = 1
       /\ accumulator' = BZero
       /\ lastTs' = Null
       /\ animationId' # Null
       /\ pending' = {animationId'}]_vars
\* a session just started with a dt typed into the form, after a reset of a
\* running session that had left lastTs set
C2_Witness ==
  /\ simState = "running"
  /\ lastTs = Null
  /\ cycleCount = 0
  /\ animationId \in pending
  /\ form.dt = 40
  /\ robot.dt = 40
  /\ lastChartUpdateTs >= 150

\* C3: a simulation step runs only while simState is 'running': a step that
\* counts a cycle or appends to the session log, the plot window or the
\* trajectory starts and ends in 'running'; in 'idle' and 'paused' no frame
\* callback is scheduled, and one that ran would change nothing; in 'paused'
\* the robot changes only by a reset.
C3_StepEffect ==
  \/ cycleCount' > cycleCount
  \/ Len(data'.timeData) > Len(data.timeData)
  \/ Len(plot'.timePlot) > Len(plot.timePlot)
  \/ Len(robot'.trajectory) > Len(robot.trajectory) /\ Len(robot'.trajectory) > 1
C3_StepsOnlyWhileRunning ==
  /\ [](simState # "running" => pending = {})
  /\ [][/\ C3_StepEffect => (simState = "running" /\ simState' = "running")
        /\ (simState # "running" /\ FrameStep) =>
              UNCHANGED <<robot, cycleCount, data, plot, extData>>
        /\ (simState = "paused" /\ simState' # "idle") =>
              UNCHANGED <<robot, cycleCount, data, plot, extData>>]_vars
\* a paused session that has run steps, with time passing
C3_Witness ==
  /\ simState = "paused"
  /\ cycleCount > 0
  /\ now >= 250
  /\ lastChartUpdateTs <= 150

\* C4: pauseSimulation sets simState to 'paused', cancels the scheduled frame
\* callback, resets accumulator to 0 and lastTs to null, and leaves the
\* pose, the logs and cycleCount unchanged; while paused accumulator stays 0
\* and lastTs null, so the time accumulated before the pause is never turned
\* into a step.
C4_Pause ==
  /\ [](simState = "paused" =>
          accumulator = BZero /\ lastTs = Null /\ animationId = Null)
  /\ [][(simState = "running" /\ simState' = "paused") =>
          /\ animationId \notin pending'
          /\ pending' = {}
          /\ animationId' = Null
          /\ accumulator' = BZero
          /\ lastTs' = Null
          /\ UNCHANGED <<robot, cycleCount, data, plot, extData>>]_vars
\* paused after steps with dt = 0.04, which leave a remainder below dt
C4_Witness ==
  /\ simState = "paused"
  /\ robot.dt = 40
  /\ cycleCount = 3
  /\ accumulator = BZero

\* C5: resumeSimulation restarts the frame loop with accumulator 0 and lastTs
\* null; the first frame callback after a start or a resume only records its
\* timestamp and schedules the next callback: no step runs, whatever time
\* has passed.
C5_Resume ==
  [][/\ (simState = "paused" /\ simState' = "running") =>
          /\ accumulator' = BZero
          /\ lastTs' = Null
          /\ animationId' # Null
          /\ pending' = {animationId'}
          /\ UNCHANGED <<robot, cycleCount, data, plot, extData>>
     /\ (FrameStep /\ simState = "running" /\ lastTs = Null) =>
          /\ lastTs' = now
          /\ accumulator' = accumulator
          /\ pending' = {animationId'}
          /\ UNCHANGED <<robot, cycleCount, data, plot, extData>>]_vars
\* resumed at 300 ms after steps with dt = 0.04: the first callback has run
C5_Witness ==
  /\ simState = "running"
  /\ robot.dt = 40
  /\ cycleCount > 0
  /\ accumulator = BZero
  /\ lastTs = now
  /\ now = 300

\* C6: resetSimulation, from any state, leaves simState 'idle' with no frame
\* callback scheduled, every session-log and plot-window array empty,
\* cycleCount 0, the trajectory reduced to a single sample, and the robot's
\* pose and k, l, dt those of the form (the start point read as each build
\* reads it).
C6_AfterReset ==
  [][resetSimulation =>
       /\ simState' = "idle"
       /\ pending' = {}
       /\ animationId' = Null
       /\ LogsEmpty'
       /\ cycleCount' = 0
       /\ Len(robot'.trajectory) = 1
       /\ PoseFromForm(robot', form')
       /\ ParamsFromForm(robot', form')]_vars

\* accumulator after n subtractions of dt
RECURSIVE SubDtTimes(_, _, _)
SubDtTimes(acc, dt, n) ==
  LET a == acc
  IN  IF n = 0 THEN a ELSE SubDtTimes(DSub(a, DFromMillis(dt)), dt, n - 1)

\* the steps a transition runs
StepsRun == cycleCount' - cycleCount

\* a frame callback other than the first one of a run
CatchUpFrame == FrameStep /\ simState = "running" /\ lastTs # Null

\* C7: a frame callback runs at most MAX_STEPS_PER_FRAME steps; each step
\* subtracts dt from accumulator, so that what is left after the callback is
\* the accumulated time less dt for each step run, none of it dropped; and
\* the loop stops below the cap only when less than dt is left.
C7_Cap ==
  [][CatchUpFrame =>
       /\ StepsRun \in 0..MAX_STEPS_PER_FRAME
       /\ accumulator' =
            SubDtTimes(DAdd(accumulator, ClampedDtWall(now, lastTs)),
                       robot.dt, StepsRun)
       /\ StepsRun < MAX_STEPS_PER_FRAME => ~AccGe(accumulator', robot.dt)]_vars
\* five steps have run in the callback at 250 ms and dt or more is left
C7_Witness ==
  /\ simState = "running"
  /\ robot.dt = 40
  /\ cycleCount = 5
  /\ lastTs = 250
  /\ BGe(accumulator, DFromMillis(robot.dt))

\* 2^-40, far above the rounding error of the additions of a callback
Tolerance == BOneAt(FRACBITS - 39)

\* C8: in a frame callback accumulator grows by at most 0.25, counting the
\* dt each step run takes from it, however long the gap since the previous
\* callback was; and lastTs becomes the timestamp of the callback.
C8_Clamp ==
  [][CatchUpFrame =>
       /\ lastTs' = now
       /\ BGe(BAddExact(BAddExact(accumulator, DFromMillis(250)), Tolerance),
              BAddExact(accumulator',
                        BTimesExact(DFromMillis(robot.dt), StepsRun)))]_vars
\* callbacks at 0 and 300 ms with dt = 0.04: 0.25 s accumulated, five steps
\* run and 0.05 s left
C8_Witness ==
  /\ simState = "running"
  /\ robot.dt = 40
  /\ cycleCount = 5
  /\ lastTs = 300
  /\ BGe(accumulator, DFromMillis(robot.dt))

\* the smaller of two numbers
Min(a, b) == IF a < b THEN a ELSE b

\* C9: a callback that finds accumulator 0 and receives a delta of 3*dt (not
\* above 0.25 s) runs exactly 3 steps; in general a callback that finds
\* accumulator 0 and receives the delta d runs min(5, floor(min(d, 0.25)/dt))
\* steps.
C9_ThreeSteps ==
  [][(CatchUpFrame /\ accumulator = BZero) =>
       /\ (now - lastTs = 3 * robot.dt /\ 3 * robot.dt <= 250) => StepsRun = 3
       /\ StepsRun = Min(MAX_STEPS_PER_FRAME,
                         Min(now - lastTs, 250) \div robot.dt)]_vars

\* the value the driver clamps a coordinate to
ClampedTo(v, lo, hi) == IF v < lo THEN lo ELSE IF v > hi THEN hi ELSE v

\* C10: a feed message (setDesired with origin 'mqtt') leaves desired.x and
\* desired.y unchanged when desired.source is 'manual'; when desired.source
\* is 'mqtt' and both coordinates are finite the target becomes the pair
\* clamped to the simulation area.
C10_Gate ==
  [][\A x \in FeedXValues, y \in FeedYValues :
       OnMessage(x, y) =>
         /\ desired.source = "manual" => desired' = desired
         /\ (desired.source = "mqtt" /\ IsFinite(x) /\ IsFinite(y)) =>
              /\ desired'.x = ClampedTo(x, SIM_X_MIN, SIM_X_MAX)
              /\ desired'.y = ClampedTo(y, SIM_Y_MIN, SIM_Y_MAX)
              /\ desired'.source = "mqtt"]_vars
\* the target is the one a feed message gave, clamped to the area
C10_Witness ==
  /\ desired.source = "mqtt"
  /\ desired.x = SIM_X_MIN
  /\ desired.y = 100 * SCALE

\* the target moves
TargetChanges == desired'.x # desired.x \/ desired'.y # desired.y

\* a feed message arrives
FeedMessage == \E x \in FeedXValues, y \in FeedYValues : OnMessage(x, y)

\* C11: while desired.source is 'mqtt' no manual path changes the target:
\* the target changes only by a feed message or by a switch back to manual
\* mode.
C11_FeedModeTarget ==
  [][(desired.source = "mqtt" /\ TargetChanges) =>
       (FeedMessage \/ desired'.source = "manual")]_vars

\* inside the workspace rectangle
InWorkspace(x, y) ==
  /\ SIM_X_MIN <= x /\ x <= SIM_X_MAX
  /\ SIM_Y_MIN <= y /\ y <= SIM_Y_MAX

AtomicUpdate(x, y) ==
  \/ desired'.x = desired.x /\ desired'.y = desired.y
  \/ /\ IsFinite(x) /\ IsFinite(y)
     /\ desired'.x = ClampedTo(x, SIM_X_MIN, SIM_X_MAX)
     /\ desired'.y = ClampedTo(y, SIM_Y_MIN, SIM_Y_MAX)

\* an edit of the endX or endY input
EndEdit == \E f \in EndFields : \E v \in FieldValues(f) : EndInput(f, v)

\* C13: a target update is atomic in the pair (x, y): it replaces both
\* desired.x and desired.y by the (clamped) pair it was handed, or it changes
\* neither; in particular nothing changes when only one of the two
\* coordinates handed is finite.  A feed message hands its (x, y); an edit
\* of endX or endY hands the two inputs after the edit; every other manual
\* update hands the two inputs as they are.
C13_AtomicPair ==
  [][/\ \A x \in FeedXValues, y \in FeedYValues :
          OnMessage(x, y) => AtomicUpdate(x, y)
     /\ \A f \in EndFields : \A v \in FieldValues(f) :
          EndInput(f, v) =>
            AtomicUpdate([form EXCEPT ![f] = v].endX,
                         [form EXCEPT ![f] = v].endY)
     /\ (~FeedMessage /\ ~EndEdit) => AtomicUpdate(form.endX, form.endY)]_vars

\* every target the session log holds is the first one it holds
FixedTarget ==
  \A i \in 1..Len(data.goalXData) :
    /\ data.goalXData[i] = data.goalXData[1]
    /\ data.goalYData[i] = data.goalYData[1]

\* the simulation after n steps from the start configuration of form f,
\* with the target fixed at d: a function of f, d and n alone
RECURSIVE StepsFromStart(_, _, _)
StepsFromStart(f, d, n) ==
  IF n = 0
  THEN [robot |-> PreviewRobot(RobotNew, f), cycleCount |-> 0,
        data |-> Empty(SessionArrays), plot |-> Empty(PlotArrays),
        extData |-> Empty(ExtArrays)]
  ELSE doSimStep(StepsFromStart(f, d, n - 1), d)

\* the session log and the pose are those of s
SameOutput(s0) ==
  LET s == s0
  IN  /\ data = s.data
      /\ robot.x = s.robot.x
      /\ robot.y = s.robot.y
      /\ robot.theta = s.robot.theta

\* C14: the simulation output does not depend on the frame rate: in a run
\* whose target stayed fixed, the session log and the pose after n steps are
\* those of n steps from the start configuration, however the wall-clock
\* time was split into frames and wherever the run was paused and resumed;
\* so of two such runs one log is a prefix of the other.
C14_FrameRateIndependent ==
  (cycleCount > 0 /\ FixedTarget) =>
    SameOutput(StepsFromStart(form,
                              [x |-> data.goalXData[1],
                               y |-> data.goalYData[1]],
                              cycleCount))
\* three steps with dt = 0.04, the session resumed after a pause and its
\* first callback at 300 ms
C14_Witness ==
  /\ simState = "running"
  /\ robot.dt = 40
  /\ cycleCount = 3
  /\ lastTs = 300
  /\ FixedTarget

\* a robot with the pose and the parameters of r and an empty trajectory
BareRobot(r) ==
  [x |-> r.x, y |-> r.y, theta |-> r.theta, l |-> r.l, k |-> r.k,
   dt |-> r.dt, trajectory |-> <<>>]

\* two results of calculateControl agree in {ex, ey, V, W} and in the pose
SameStep(a0, b0) ==
  LET a == a0
      b == b0
  IN  /\ a.ex = b.ex /\ a.ey = b.ey /\ a.V = b.V /\ a.W = b.W
      /\ a.robot.x = b.robot.x
      /\ a.robot.y = b.robot.y
      /\ a.robot.theta = b.robot.theta

HeadingFirst(r0, xs, ys, c0) ==
  LET r  == r0
      c  == c0
      th == FAdd(r.theta, FMul(c.W, r.dt))
  IN  /\ c.ex = FSub(FAdd(r.x, FMul(r.l, Cos(r.theta))), xs)
      /\ c.ey = FSub(FAdd(r.y, FMul(r.l, Sin(r.theta))), ys)
      /\ c.robot.theta = th
      /\ c.robot.x = FAdd(r.x, FMul(FMul(c.V, Cos(th)), r.dt))
      /\ c.robot.y = FAdd(r.y, FMul(FMul(c.V, Sin(th)), r.dt))

\* C16: calculateControl integrates heading-first: the returned ex, ey are
\* the error of the control point before the step, theta becomes
\* theta + W*dt, and x and y advance by V*cos(theta_new)*dt and
\* V*sin(theta_new)*dt, with the heading after the step.
C16_HeadingFirst ==
  HeadingFirst(robot, desired.x, desired.y,
               calculateControl(robot, desired.x, desired.y))
\* a robot that has turned and whose next step turns it again, the advance
\* along the new heading differing from the one along the old heading
C16_Witness ==
  LET c == calculateControl(robot, desired.x, desired.y)
  IN  /\ cycleCount > 0
      /\ robot.theta # 0
      /\ c.W # 0
      /\ FMul(FMul(c.V, Cos(c.robot.theta)), robot.dt) #
           FMul(FMul(c.V, Cos(robot.theta)), robot.dt)

\* the last entry of a log array
Last(seq) == seq[Len(seq)]

\* C17: with l = 0 calculateControl returns non-finite V and W (the division
\* by the zero determinant is not swallowed), and they propagate into the
\* pose and into the logs.
C17_SingularNotSwallowed ==
  (robot.l = 0 /\ cycleCount > 0) =>
    /\ ~IsFinite(Last(data.VData)) /\ ~IsFinite(Last(data.WData))
    /\ ~IsFinite(Last(plot.VPlot)) /\ ~IsFinite(Last(plot.WPlot))
    /\ ~IsFinite(robot.theta) /\ ~IsFinite(robot.x) /\ ~IsFinite(robot.y)
    /\ ~IsFinite(Last(data.posXData)) /\ ~IsFinite(Last(data.posYData))
    /\ ~IsFinite(Last(data.thetaDegData))
\* steps have run with l = 0 from a heading of 90 degrees
C17_Witness ==
  /\ robot.l = 0
  /\ form.angle = 90 * SCALE
  /\ cycleCount > 1

\* the error of the control point of robot r
ErrX(r) == FSub(getExtensionPoint(r).x, desired.x)
ErrY(r) == FSub(getExtensionPoint(r).y, desired.y)

\* the distance from the control point to the target is smaller after the
\* step than before it: d'^2 - d^2 < 0, written as the sum of the two
\* differences of squares
DistanceDecreases ==
  LET ex == ErrX(robot)
      ey == ErrY(robot)
      fx == ErrX(robot')
      fy == ErrY(robot')
  IN  (fx - ex) * (fx + ex) + (fy - ey) * (fy + ey) < 0

\* the square of the distance from the control point of r to the target,
\* in units of 0.1 mm
CoarseDist2(r) ==
  (ErrX(r) \div 100) * (ErrX(r) \div 100)
    + (ErrY(r) \div 100) * (ErrY(r) \div 100)

Pushed == Append(robot.trajectory, getExtensionPoint(robot'))

\* C19: the trajectory never holds more than maxTrajectoryPoints +
\* _trajTrimChunk samples; a step pushes the current control point; the
\* buffer is trimmed only when the push crosses that bound, and then exactly
\* the most recent maxTrajectoryPoints samples are left, in their order; the
\* last sample is always the current control point.
C19_TrajectoryCap ==
  /\ [](/\ Len(robot.trajectory) <= maxTrajectoryPoints + _trajTrimChunk
        /\ Len(robot.trajectory) > 0
        /\ Last(robot.trajectory) = getExtensionPoint(robot))
  /\ [][TrailStep =>
          IF Len(Pushed) > maxTrajectoryPoints + _trajTrimChunk
          THEN robot'.trajectory =
                 SubSeq(Pushed, Len(Pushed) - maxTrajectoryPoints + 1,
                        Len(Pushed))
          ELSE robot'.trajectory = Pushed]_vars
\* the buffer right after its first trim: 5000 samples, the first of them
\* from the time the robot was still on its way
C19_Witness ==
  /\ cycleCount = maxTrajectoryPoints + _trajTrimChunk
  /\ Len(robot.trajectory) = maxTrajectoryPoints
  /\ robot.trajectory[1] # Last(robot.trajectory)

\* the session-log array a plot-window array is a window of
PlotSource ==
  [timePlot |-> "timeData", errorXPlot |-> "errorXData",
   errorYPlot |-> "errorYData", posXPlot |-> "posXData",
   posYPlot |-> "posYData", VPlot |-> "VData", WPlot |-> "WData",
   goalXPlot |-> "goalXData", goalYPlot |-> "goalYData"]

\* the last n entries of a sequence
Suffix(seq, n) == SubSeq(seq, Len(seq) - n + 1, Len(seq))

\* C20: the session log is never trimmed: each of its arrays holds one entry
\* per step since the start; the plot window never holds more than
\* MAX_PLOT_POINTS + PLOT_TRIM_CHUNK entries after a step and at least
\* min(cycleCount, MAX_PLOT_POINTS); it is at every moment the most recent
\* suffix of the session log; and a step either lengthens it by one entry or
\* cuts a batch of PLOT_TRIM_CHUNK entries from its front.
C20_PlotWindow ==
  /\ [](/\ \A a \in SessionArrays : Len(data[a]) = cycleCount
        /\ Len(plot.timePlot) <= MAX_PLOT_POINTS + PLOT_TRIM_CHUNK
        /\ Len(plot.timePlot) >= Min(cycleCount, MAX_PLOT_POINTS)
        /\ \A a \in PlotArrays :
             plot[a] = Suffix(data[PlotSource[a]], Len(plot.timePlot)))
  /\ [][WindowStep =>
          \/ Len(plot'.timePlot) = Len(plot.timePlot) + 1
          \/ Len(plot'.timePlot) = Len(plot.timePlot) + 1 - PLOT_TRIM_CHUNK]_vars
\* the plot window right after its first trim: step 1501 has brought it to
\* 1501 entries and 300 were cut
C20_Witness ==
  /\ cycleCount = MAX_PLOT_POINTS + PLOT_TRIM_CHUNK + 1
  /\ Len(plot.timePlot) = MAX_PLOT_POINTS + 1
  /\ Len(data.timeData) = cycleCount
  /\ plot.timePlot[1] = data.timeData[PLOT_TRIM_CHUNK + 1]

\* the pose of a robot
Pose(r) == <<r.x, r.y, r.theta>>

\* C21: k, l, dt and the initial pose are read from the form only while
\* simState is 'idle': from startSimulation until the next resetSimulation
\* (simState 'running' or 'paused' before and after the step) no handler
\* changes robot.k, robot.l or robot.dt, and the pose changes only in a
\* frame callback that runs simulation steps.
C21_FrozenWhileNotIdle ==
  [][(simState # "idle" /\ simState' # "idle") =>
       /\ robot'.k = robot.k
       /\ robot'.l = robot.l
       /\ robot'.dt = robot.dt
       /\ Pose(robot') # Pose(robot) =>
            (FrameStep /\ simState = "running" /\ cycleCount' > cycleCount)]_vars
\* the robot image has loaded during a session that had made steps, and the
\* preview it asks for has left the robot where the steps brought it
C21_Witness ==
  /\ loaded
  /\ simState # "idle"
  /\ cycleCount > 0
  /\ now = 150
  /\ Pose(robot) # Pose(PreviewRobot(robot, form))

\* C22: the frame loop is cancelled explicitly and never duplicated: between
\* handlers animationId is non-null exactly when simState is 'running'; at
\* most one animateFrame callback is pending, the one animationId names, and
\* none when the session is not running; and only a callback that runs while
\* simState is 'running' executes steps.
C22_OneFrameLoop ==
  /\ [](animationId # Null <=> simState = "running")
  /\ [](Cardinality(pending) <= 1)
  /\ [](pending = IF simState = "running" THEN {animationId} ELSE {})
  /\ [][cycleCount' > cycleCount =>
          (FrameStep /\ simState = "running" /\ pending = {animationId})]_vars
\* a session that was paused after it had made steps and has been resumed:
\* one callback is pending again
C22_Witness ==
  /\ simState = "running"
  /\ cycleCount > 0
  /\ lastTs = Null
  /\ pending = {animationId}

\* the charts are refreshed in this step: lastChartUpdateTs takes a new value
Refreshed == lastChartUpdateTs' # lastChartUpdateTs

\* C23: chart refreshes are throttled independently of the step rate: a frame
\* callback that runs steps leaves chartsDirty set unless it refreshes; a
\* frame callback refreshes only when chartsDirty is set (from before or by
\* its own steps) and at least CHART_UPDATE_MS have passed since the previous
\* refresh, and then it does refresh; a refresh clears chartsDirty and records
\* the time of the callback, once, however many steps the callback ran; every
\* other refresh is the forced one of a start or a reset.
C23_ChartThrottle ==
  /\ [][FrameStep =>
          LET dirty == chartsDirty \/ cycleCount' > cycleCount
              due   == now - lastChartUpdateTs >= CHART_UPDATE_MS
          IN  /\ Refreshed <=> (simState = "running" /\ lastTs # Null
                                  /\ dirty /\ due)
              /\ Refreshed => ~chartsDirty' /\ lastChartUpdateTs' = now
              /\ ~Refreshed => /\ lastChartUpdateTs' = lastChartUpdateTs
                               /\ chartsDirty' = dirty]_vars
  /\ [][(~FrameStep /\ (Refreshed \/ chartsDirty' # chartsDirty)) =>
          /\ ~chartsDirty'
          /\ lastChartUpdateTs' = now
          /\ \/ simState = "idle" /\ simState' = "running"
             \/ simState' = "idle"]_vars
\* a frame callback has run steps 100 ms after the last refresh: the charts
\* are dirty and have not been refreshed
C23_Witness ==
  /\ simState = "running"
  /\ chartsDirty
  /\ cycleCount > 0
  /\ lastTs = now
  /\ now - lastChartUpdateTs = 100

\* what each message text says, read by hand: the pair of finite numbers it
\* gives (a JSON object with numeric x and y, or a text that starts with two
\* numbers separated by white space, commas or semicolons), <<>> if none
Meaning ==
  [p \in Payloads |->
     CASE p = "{\"x\":100,\"y\":-50}" -> <<100000, -50000>>
       [] p = " {\"x\": 250.5, \"y\": 20} " -> <<250500, 20000>>
       [] p = "{\"y\":7,\"x\":-120,\"z\":[1,\"a\"]}" -> <<-120000, 7000>>
       [] p = "150,-60" -> <<150000, -60000>>
       [] p = "30 40" -> <<30000, 40000>>
       [] p = "10;20" -> <<10000, 20000>>
       [] p = " 5 ,\t6 " -> <<5000, 6000>>
       [] p = "1.5, -2.25" -> <<1500, -2250>>
       [] p = "+7 .5" -> <<7000, 500>>
       [] p = "1 2 3" -> <<1000, 2000>>
       [] p = "900,900" -> <<900000, 900000>>
       [] OTHER -> <<>>]

\* the whole state but desired and the two target inputs of the form
RestUnchanged ==
  /\ UNCHANGED <<connection, sessionCsv, variant, startDisabled, endDisabled, robot, simState,
                 animationId, cycleCount, lastTs, accumulator, data, plot,
                 extData, chartsDirty, lastChartUpdateTs, pending, now,
                 loaded, mqttSubscribedTopic, sessionCsv>>
  /\ \A fld \in StartFields : form'[fld] = form[fld]

\* C24: a feed message changes the target only if its text gives a pair of
\* finite numbers and its topic equals mqttSubscribedTopic; then, in feed
\* mode, the target is that pair clamped to the workspace; every other
\* message (empty, unparseable, non-finite, wrong topic) leaves desired and
\* the form as they were; and no message changes anything else.
C24_FeedMessage ==
  [][\A t \in MessageTopics, payload \in Payloads :
       MqttMessage(t, payload) =>
         /\ RestUnchanged
         /\ desired'.source = desired.source
         /\ IF t = mqttSubscribedTopic /\ Meaning[payload] # <<>>
               /\ desired.source = "mqtt"
            THEN /\ desired'.x = clamp(Meaning[payload][1], SIM_X_MIN, SIM_X_MAX)
                 /\ desired'.y = clamp(Meaning[payload][2], SIM_Y_MIN, SIM_Y_MAX)
            ELSE desired' = desired /\ form' = form]_vars
\* the target is the one of the message " 5 ,\t6 ", received on the
\* subscribed topic in feed mode
C24_Witness ==
  /\ desired.source = "mqtt"
  /\ mqttSubscribedTopic = "robot/goal"
  /\ desired.x = 5 * SCALE
  /\ desired.y = 6 * SCALE
  /\ form.endX = 5 * SCALE

\* the position a step logs: the robot centre in canvas.js, the control
\* point in part_000
LoggedX(r) == IF variant = "centre" THEN r.x ELSE getExtensionPoint(r).x
LoggedY(r) == IF variant = "centre" THEN r.y ELSE getExtensionPoint(r).y

\* entry i of the session arrays in the column order t, x, y, theta, ex, ey,
\* V, W, targetX, targetY
Logged(d, i) ==
  <<d["timeData"][i], d["posXData"][i], d["posYData"][i],
    d["thetaDegData"][i], d["errorXData"][i], d["errorYData"][i],
    d["VData"][i], d["WData"][i], d["goalXData"][i], d["goalYData"][i]>>

\* the step from r0 to r1 under the target d, as a row: time, position and
\* heading after the step, the errors and commands computed in it, the target
StepAsRow(n, r0, r1, d) ==
  LET c == calculateControl(r0, d.x, d.y)
  IN  <<StepTime(n, r0.dt), LoggedX(r1), LoggedY(r1), RadToDeg(r1.theta),
        c.ex, c.ey, c.V, c.W, d.x, d.y>>

\* C25: the session file has one row per step executed since the last start,
\* in step order (row i carries the time of step i), with the columns t, x,
\* y, theta, ex, ey, V, W, targetX, targetY of that step: each step adds its
\* own row after the rows already logged and leaves those untouched, and a
\* download writes the header and rows 1..cycleCount of the log, the last one
\* showing the robot where it now is; when no step has been executed since
\* the last start or reset the download is refused and no file is produced.
C25_SessionExport ==
  /\ [][SessionStep =>
          /\ Logged(data', cycleCount') =
               StepAsRow(cycleCount', robot, robot', desired)
          /\ \A i \in 1..cycleCount : Logged(data', i) = Logged(data, i)]_vars
  /\ [][sessionCsv' # sessionCsv =>
          /\ cycleCount > 0
          /\ sessionCsv'.header = CsvHeader
          /\ Len(sessionCsv'.rows) = cycleCount
          /\ \A i \in 1..cycleCount :
               /\ sessionCsv'.rows[i] = Logged(data, i)
               /\ sessionCsv'.rows[i][1] = StepTime(i, robot.dt)
          /\ sessionCsv'.rows[cycleCount][2] = LoggedX(robot)
          /\ sessionCsv'.rows[cycleCount][3] = LoggedY(robot)
          /\ sessionCsv'.rows[cycleCount][4] = RadToDeg(robot.theta)]_vars
  /\ [][(downloadSessionCSV /\ cycleCount = 0) => sessionCsv' = sessionCsv]_vars
  /\ [](sessionCsv # NoFile => Len(sessionCsv.rows) > 0)
\* a file of three rows, downloaded after a session whose target was moved
\* between the steps
C25_Witness ==
  /\ sessionCsv # NoFile
  /\ cycleCount = MaxSessionSteps
  /\ Len(sessionCsv.rows) = cycleCount
  /\ sessionCsv.rows[1][9] # sessionCsv.rows[3][9]
  /\ sessionCsv.rows[3] = Logged(data, 3)

\* a handler that sets the target runs: an edit of endX or endY, a feed
\* message, a change of the Manual/MQTT selector
TargetHandler ==
  \/ EndEdit
  \/ FeedMessage
  \/ \E source \in Sources : TargetSourceChange(source)

\* C26: the target may change at any time, also while running or paused,
\* and the handlers that change it leave simState, the robot, cycleCount and
\* the logs alone; a step uses the target in force when it executes: the
\* errors it logs are the distance from the control point before the step
\* to that target, the targetX/targetY it logs are that target, and the step
\* does not change the target.
C26_TargetInForce ==
  /\ [][TargetHandler =>
          UNCHANGED <<simState, robot, cycleCount, data, plot, extData,
                      animationId, lastTs, accumulator>>]_vars
  /\ [][SessionStep =>
          /\ desired' = desired
          /\ Last(data'.goalXData) = desired.x
          /\ Last(data'.goalYData) = desired.y
          /\ Last(data'.errorXData) = FSub(getExtensionPoint(robot).x, desired.x)
          /\ Last(data'.errorYData) = FSub(getExtensionPoint(robot).y, desired.y)
          /\ robot' = calculateControl(robot, desired.x, desired.y).robot]_vars
\* a paused session whose target was changed between two steps and again
\* after the last step
C26_Witness ==
  /\ simState = "paused"
  /\ cycleCount >= 2
  /\ data.goalXData[1] # data.goalXData[2]
  /\ desired.x # Last(data.goalXData)

\* the trajectory of r is one sample, the control point of r
OneSampleAtControlPoint(r) == r.trajectory = <<getExtensionPoint(r)>>

\* C27: after every idle preview (an edit of startX, startY, angle, k, l or
\* dt), every start and every reset, the trajectory is exactly one sample
\* and the sample is the robot's current control point
\* (x + l*cos(theta), y + l*sin(theta)), computed with the parameters now
\* stored in the robot.
C27_SingleSample ==
  [][(StartEdit \/ resetSimulation \/ (simState = "idle" /\ toggleSimulation))
       => OneSampleAtControlPoint(robot')]_vars

\* C28: the catch-up loop of animateFrame ends in every callback whatever
\* robot.dt is: a callback of a running session runs at most
\* MAX_STEPS_PER_FRAME steps (exactly that many, after the first callback,
\* when dt is zero or negative, none when dt is NaN), records its time and
\* leaves exactly one callback scheduled, the one animationId names.
C28_CatchUpEnds ==
  [][(FrameStep /\ simState = "running") =>
       /\ cycleCount' - cycleCount \in 0..MAX_STEPS_PER_FRAME
       /\ (lastTs # Null /\ IsFinite(robot.dt) /\ robot.dt <= 0) =>
            cycleCount' - cycleCount = MAX_STEPS_PER_FRAME
       /\ robot.dt = NaN => cycleCount' = cycleCount
       /\ lastTs' = now
       /\ simState' = "running"
       /\ animationId' # Null
       /\ pending' = {animationId'}]_vars
\* a running session with dt = 0 after two capped callbacks, the next one
\* scheduled
C28_Witness ==
  /\ simState = "running"
  /\ robot.dt = 0
  /\ cycleCount = 2 * MAX_STEPS_PER_FRAME
  /\ lastTs = now
  /\ pending = {animationId}

\* the time a frame callback has to spend: accumulator + dtWall
Budget == DAdd(accumulator, ClampedDtWall(now, lastTs))

\* C29: for dt > 0 accumulator is never negative: every subtraction of dt in
\* a callback is from a value that is at least dt, and outside the callbacks
\* accumulator is only reset to 0; at the end of a callback either less than
\* dt is left or MAX_STEPS_PER_FRAME steps were run; and accumulator has no
\* upper bound: a callback that adds more than MAX_STEPS_PER_FRAME * dt (the
\* time since the last callback, at most 250 ms, against five times dt in
\* ms) runs MAX_STEPS_PER_FRAME steps and leaves accumulator larger than it
\* found it.
C29_Accumulator ==
  /\ [][(CatchUpFrame /\ IsFinite(robot.dt) /\ robot.dt > 0) =>
          /\ \A i \in 0..(StepsRun - 1) :
               BGe(SubDtTimes(Budget, robot.dt, i), DFromMillis(robot.dt))
          /\ accumulator' = SubDtTimes(Budget, robot.dt, StepsRun)
          /\ \/ BGt(DFromMillis(robot.dt), accumulator')
             \/ StepsRun = MAX_STEPS_PER_FRAME
          /\ Min(now - lastTs, 250) > MAX_STEPS_PER_FRAME * robot.dt =>
               /\ StepsRun = MAX_STEPS_PER_FRAME
               /\ BGt(accumulator', accumulator)]_vars
  /\ [][~CatchUpFrame =>
          (accumulator' = accumulator \/ accumulator' = BZero)]_vars
\* dt = 0.01 and callbacks at 0, 150 and 250 ms: the cap has stopped two
\* callbacks and more than 0.14 s is left in accumulator
C29_Witness ==
  /\ simState = "running"
  /\ robot.dt = 10
  /\ lastTs = 250
  /\ cycleCount = 2 * MAX_STEPS_PER_FRAME
  /\ BGt(accumulator, DFromMillis(140))

\* C30: between handlers all session-log arrays, and extXData and extYData
\* in part_000, have cycleCount entries, and all plot-window arrays have the
\* same length; across start, pause, resume and reset, although
\* startSimulation does not empty extXData and extYData.
C30_EqualLengths ==
  /\ \A a \in SessionArrays : Len(data[a]) = cycleCount
  /\ variant = "ext" => \A a \in ExtArrays : Len(extData[a]) = cycleCount
  /\ variant = "centre" => extData = Empty(ExtArrays)
  /\ \A a \in PlotArrays : Len(plot[a]) = Len(plot.timePlot)
\* part_000 running with steps made in a session started at 150 ms or later
C30_Witness ==
  /\ variant = "ext"
  /\ simState = "running"
  /\ cycleCount > 0
  /\ lastChartUpdateTs >= 150
  /\ Len(extData.extXData) = cycleCount

\* the step counter moves only as the claim says: to 0 by a start or a
\* reset, up by one per recorded step while running, and not at all across
\* a pause or a resume
CountedSteps ==
  /\ cycleCount' # cycleCount =>
       \/ /\ cycleCount' = 0
          /\ \/ simState = "idle" /\ simState' = "running"
             \/ simState' = "idle"
       \/ /\ simState = "running"
          /\ simState' = "running"
          /\ cycleCount' > cycleCount
          /\ Len(data'.timeData) - Len(data.timeData) = cycleCount' - cycleCount
          /\ SubSeq(data'.timeData, 1, Len(data.timeData)) = data.timeData
  /\ (simState = "running" /\ simState' = "paused") =>
       cycleCount' = cycleCount /\ data'.timeData = data.timeData
  /\ (simState = "paused" /\ simState' = "running") =>
       cycleCount' = cycleCount /\ data'.timeData = data.timeData

\* the time recorded for the n-th step of the run is n*dt rounded to two
\* decimals, and there is one for each step counted
TimesAreStepTimes ==
  /\ Len(data.timeData) = cycleCount
  /\ \A n \in 1..Len(data.timeData) :
       data.timeData[n] = StepTime(n, robot.dt)

\* the recorded times are strictly increasing
TimesIncrease ==
  \A n \in 1..(Len(data.timeData) - 1) :
    data.timeData[n] < data.timeData[n + 1]

\* C31: simulated time is a function of the step count: cycleCount is set
\* to 0 only by start and reset, goes up by exactly 1 per step and is kept
\* across pause and resume; the time recorded for the n-th step of a run is
\* n*dt rounded to two decimals; the recorded times are strictly increasing
\* within a run, and a pause leaves no gap in them.
C31_SimulatedTime ==
  /\ [](TimesAreStepTimes /\ TimesIncrease)
  /\ [][CountedSteps]_vars

\* the parts of C31 that do not speak of the order of the recorded times
C31_CountAndTimes == [](TimesAreStepTimes) /\ [][CountedSteps]_vars

\* C32: every recorded step is eventually shown on the charts: whenever
\* simState is 'paused' or 'idle', chartsDirty is false (the charts have
\* been refreshed since the last recorded step).
C32_ShownWhenStopped ==
  simState \in {"paused", "idle"} => ~chartsDirty

\* the client now stored in mqttClient is connected
CurrentClientConnected ==
  mqttClient # Null /\ clients[mqttClient].state = "connected"

\* mqttIsConnected is true exactly when the client stored in mqttClient is
\* connected
FlagFollowsClient == mqttIsConnected <=> CurrentClientConnected

\* C33: the connection flag follows the current client only, under every
\* interleaving of connect, close and error events: a late 'close' or
\* 'error' of a client that was already replaced never takes
\* mqttIsConnected to false while the new client is connected.
C33_LateEvent ==
  [][\A c \in 1..Len(clients) :
       ((ClientClose(c) \/ ClientError(c)) /\ c # mqttClient
          /\ mqttIsConnected /\ CurrentClientConnected)
         => mqttIsConnected']_vars

\* mqttIsConnected is true only when the current client is connected
FlagOnlyWhenConnected == mqttIsConnected => CurrentClientConnected

\* the URL field or the topic field is empty
Refused == Trim(mqttUrlInput) = "" \/ Trim(mqttTopicInput) = ""

\* C34: a connect attempt that is refused because the URL or the topic is
\* empty leaves the driver state unchanged: no client is created,
\* mqttIsConnected stays false, and the target source, the target and the
\* enabled/disabled state of the manual target inputs are as before.
C34_RefusedConnect ==
  [][(MqttConnect /\ Refused) =>
       /\ clients' = clients
       /\ mqttClient' = mqttClient
       /\ mqttIsConnected' = FALSE
       /\ desired' = desired
       /\ endDisabled' = endDisabled]_vars

\* the same for the build of src/canvas.js alone
C34_RefusedConnectCentre ==
  [][(MqttConnect /\ Refused /\ variant = "centre") =>
       /\ clients' = clients
       /\ mqttClient' = mqttClient
       /\ mqttIsConnected' = FALSE
       /\ desired' = desired
       /\ endDisabled' = endDisabled]_vars

\* C35: after mqttDisconnect no message changes the target until a new
\* subscription is established: mqttDisconnect leaves mqttSubscribedTopic
\* '', it stays '' until mqttResubscribe stores the topic of the topic field
\* for a connected client, and while it is '' every message leaves the
\* target as it was; after a topic change by mqttResubscribe only messages
\* whose topic equals the newly stored mqttSubscribedTopic change the
\* target.
C35_NoTargetWithoutSubscription ==
  [][/\ MqttDisconnect => mqttSubscribedTopic' = ""
     /\ (mqttSubscribedTopic' # mqttSubscribedTopic
           /\ mqttSubscribedTopic' # "") =>
          /\ mqttClient' # Null
          /\ mqttIsConnected'
          /\ mqttSubscribedTopic' = Trim(mqttTopicInput')
     /\ \A t \in MessageTopics, payload \in ConnectPayloads :
          (MqttMessage(t, payload) /\ (desired' # desired \/ form' # form))
            => t = mqttSubscribedTopic /\ mqttSubscribedTopic # ""]_vars
\* the feed was subscribed and gave the target (150, -60); the client has
\* since been ended by mqttDisconnect and no topic is subscribed
C35_Witness ==
  /\ mqttClient = Null
  /\ Len(clients) > 0
  /\ clients[1].state = "ended"
  /\ mqttSubscribedTopic = ""
  /\ desired.source = "mqtt"
  /\ desired.x = 150 * SCALE
  /\ desired.y = -60 * SCALE

\* |x - y|, exactly
Apart(x, y) ==
  IF x.neg = y.neg
  THEN IF BGe(x.mag, y.mag) THEN BSubExact(x.mag, y.mag)
       ELSE BSubExact(y.mag, x.mag)
  ELSE BAddExact(x.mag, y.mag)

\* 2^13 * 2^13 * 2^13 * 2^12 = 2^51 times a, for a below 2^-45
Times2To51(a) ==
  BTimesExact(BTimesExact(BTimesExact(BTimesExact(a, 8192), 8192), 8192), 4096)

\* a <= 2^-51 * b
WithinRounding(a, b) ==
  /\ \A i \in 3..NLIMB : a[i] = 0
  /\ BGe(b, Times2To51(a))

AnySource == Sources \cup {"", "auto"}

\* the target the manual inputs give: each coordinate clamped if it is a
\* finite number, else the coordinate the target had
ReadFromInputs(d, f) ==
  [x |-> IF IsFinite(f.endX) THEN clamp(f.endX, SIM_X_MIN, SIM_X_MAX) ELSE d.x,
   y |-> IF IsFinite(f.endY) THEN clamp(f.endY, SIM_Y_MIN, SIM_Y_MAX) ELSE d.y]

\* C37: setTargetSource normalises its argument, so desired.source is
\* always 'manual' or 'mqtt' (any value other than 'mqtt' selects 'manual');
\* switching to 'mqtt' leaves desired.x and desired.y unchanged, switching
\* to 'manual' re-reads the target from the manual inputs at once, and
\* neither switch changes simState, pose, accumulator or logs; the manual
\* target inputs are disabled exactly when desired.source is 'mqtt'.
C37_TargetSource ==
  /\ [](/\ desired.source \in Sources
        /\ endDisabled <=> desired.source = "mqtt"
        /\ \A source \in AnySource :
             setTargetSource(desired, form, source).desired.source
               = (IF source = "mqtt" THEN "mqtt" ELSE "manual"))
  /\ [][\A source \in Sources :
          TargetSourceChange(source) =>
            /\ desired'.source = source
            /\ endDisabled' <=> source = "mqtt"
            /\ source = "mqtt" =>
                 desired'.x = desired.x /\ desired'.y = desired.y
            /\ source = "manual" =>
                 /\ desired'.x = ReadFromInputs(desired, form).x
                 /\ desired'.y = ReadFromInputs(desired, form).y
            /\ UNCHANGED <<simState, robot, accumulator, cycleCount, data,
                           plot, extData, lastTs, animationId, pending>>]_vars
\* a running session with steps recorded whose target source is the feed,
\* the manual target inputs disabled
C37_Witness ==
  /\ desired.source = "mqtt"
  /\ endDisabled
  /\ simState = "running"
  /\ cycleCount > 0

\* the robot at the pose the k-th record of the session log holds: heading
\* thetaDegData[k]; centre posXData[k], posYData[k] in canvas.js, and
\* extXData[k], extYData[k] in part_000, whose posXData, posYData are the
\* control point
RecordPose(k) ==
  [robot EXCEPT
     !.x = IF variant = "centre" THEN data.posXData[k] ELSE extData.extXData[k],
     !.y = IF variant = "centre" THEN data.posYData[k] ELSE extData.extYData[k],
     !.theta = DegToRad(data.thetaDegData[k])]

\* the control point of the pose of record k, minus the target of record j
ErrorOf(k, j) ==
  [x |-> FSub(getExtensionPoint(RecordPose(k)).x, data.goalXData[j]),
   y |-> FSub(getExtensionPoint(RecordPose(k)).y, data.goalYData[j])]

\* record k follows record k - 1 with the same target
SameTarget(k) ==
  /\ data.goalXData[k] = data.goalXData[k - 1]
  /\ data.goalYData[k] = data.goalYData[k - 1]

\* C38: the fields of one step record come from two instants: ex, ey, V, W
\* are computed from the pose before the step, x, y, theta and the appended
\* trajectory sample are the pose after it; so for the k-th record (k >= 2)
\* with an unchanged target, ex is the control-point x implied by record
\* k - 1 minus targetX, not the one implied by record k.
C38_TwoInstants ==
  simState # "idle" =>
    LET n == Len(data.timeData)
    IN  /\ n >= 1 =>
             /\ RecordPose(n).x = robot.x
             /\ RecordPose(n).y = robot.y
             /\ data.thetaDegData[n] = RadToDeg(robot.theta)
             /\ Last(robot.trajectory) = getExtensionPoint(robot)
        /\ \A k \in 2..n :
             SameTarget(k) =>
               LET c == calculateControl(RecordPose(k - 1), data.goalXData[k],
                                         data.goalYData[k])
               IN  /\ data.errorXData[k] = ErrorOf(k - 1, k).x
                   /\ data.errorYData[k] = ErrorOf(k - 1, k).y
                   /\ data.VData[k] = c.V
                   /\ data.WData[k] = c.W
\* a session of two records or more with one target, whose last record
\* holds an error that is not the one of its own pose
C38_Witness ==
  /\ simState # "idle"
  /\ Len(data.timeData) >= 2
  /\ SameTarget(Len(data.timeData))
  /\ Last(data.errorXData) # ErrorOf(Len(data.timeData), Len(data.timeData)).x
  /\ Last(data.errorXData)
       = ErrorOf(Len(data.timeData) - 1, Len(data.timeData)).x

====
